---- MODULE Spec2Model ----
(***************************************************************************)
(* A model of the games scraper of src/datos.py: the run controller `run`, *)
(* the per-source orchestrator `scrape_site` with its worker tasks and     *)
(* admission semaphore, the synthetic backfill, the fallback of the        *)
(* orchestrator's handler, the seed discoverers and the fetcher `fetch`.   *)
(* src/viejo.py is the earlier version of the same program (sources steam, *)
(* gog, pnp); its scrape_site and run have the same control flow.          *)
(***************************************************************************)
EXTENDS Integers, Sequences, FiniteSets, TLC

(***************************************************************************)
(* Bounds of the model.  The program's quotas (80, 80, 50), its cap on     *)
(* discovered URLs (600) and its page count (29) are scaled down.          *)
(***************************************************************************)
QuotaSteam == 2
QuotaGog == 1
QuotaGmg == 1
MaxTime == 2
MaxConc == 2
SeedCap == 3
PageLimit == 2
MaxMoneyLen == 3
NameSlack == 1
MaxNameLen == 3

\* Program constants.
BatchFactor == 3
FetchAttempts == 5
RateLimitBase == 3

Sites == <<"steam", "gog", "gmg">>
SiteSet == {"steam", "gog", "gmg"}

TARGET == [s \in SiteSet |->
             CASE s = "steam" -> QuotaSteam
               [] s = "gog" -> QuotaGog
               [] OTHER -> QuotaGmg]

\* --concurrency is any int: a negative value, zero and the positive values.
ConcurrencyValues == (0 - 1)..MaxConc

\* deadline = time.time() + timeout, with the clock at 0 when run starts: no
\* budget, a budget that runs out during the run, and one that never does
\* (a deadline above MaxTime never passes).
DeadlineValues == {0, 1, MaxTime + 1}

(***************************************************************************)
(* Names.  A name is a sequence of symbols; a symbol stands for one        *)
(* character or for one word of the program's format strings.              *)
(***************************************************************************)
LowerTable ==
    ("Z" :> "z") @@ ("Exclusivo" :> "exclusivo") @@ ("Juego" :> "juego") @@
    ("Timeout" :> "timeout") @@ ("Backup" :> "backup") @@
    ("STEAM" :> "steam") @@ ("GOG" :> "gog") @@ ("GMG" :> "gmg") @@
    ("The" :> "the") @@ ("THE" :> "the") @@ ("Witcher" :> "witcher")

UpperTable == ("steam" :> "STEAM") @@ ("gog" :> "GOG") @@ ("gmg" :> "GMG")

\* str.lower() on one symbol
Lower(c) == IF c \in DOMAIN LowerTable THEN LowerTable[c] ELSE c

\* str.upper() on a site key
Upper(s) == UpperTable[s]

StripSymbols == {"TM", "(R)", "(C)", ":", "'", "-"}
Whitespace == {" ", "\t"}

LowerAll[w \in Seq(STRING)] ==
    IF w = <<>> THEN <<>> ELSE <<Lower(Head(w))>> \o LowerAll[Tail(w)]

\* re.sub(r"[...]", "", w)
RemoveSymbols[w \in Seq(STRING)] ==
    IF w = <<>> THEN <<>>
    ELSE IF Head(w) \in StripSymbols THEN RemoveSymbols[Tail(w)]
    ELSE <<Head(w)>> \o RemoveSymbols[Tail(w)]

\* re.sub(r"\s+", " ", w): every maximal run of whitespace becomes one space
CollapseSpaces[w \in Seq(STRING)] ==
    IF w = <<>> THEN <<>>
    ELSE IF Head(w) \in Whitespace
         THEN IF Len(w) > 1 /\ w[2] \in Whitespace
              THEN CollapseSpaces[Tail(w)]
              ELSE <<" ">> \o CollapseSpaces[Tail(w)]
         ELSE <<Head(w)>> \o CollapseSpaces[Tail(w)]

StripLeft[w \in Seq(STRING)] ==
    IF w # <<>> /\ Head(w) \in Whitespace THEN StripLeft[Tail(w)] ELSE w

StripRight[w \in Seq(STRING)] ==
    IF w # <<>> /\ w[Len(w)] \in Whitespace
    THEN StripRight[SubSeq(w, 1, Len(w) - 1)] ELSE w

\* str.strip()
Strip(w) == StripRight[StripLeft[w]]

\* the two substitutions in the other order
normalize_game_name_CollapseFirst(name) ==
    IF name = <<>> THEN <<>>
    ELSE Strip(RemoveSymbols[CollapseSpaces[LowerAll[name]]])

\* str.strip() applied before the substitutions
normalize_game_name_StripFirst(name) ==
    IF name = <<>> THEN <<>>
    ELSE CollapseSpaces[RemoveSymbols[Strip(LowerAll[name])]]

normalize_game_name(name) ==
    IF name = <<>> THEN <<>>
    ELSE Strip(CollapseSpaces[RemoveSymbols[LowerAll[name]]])

\* f"Exclusivo {site.upper()} Juego {n}"
ExclusivoName(s, n) == <<"Exclusivo", " ", Upper(s), " ", "Juego", " ", ToString(n)>>
\* f"Timeout {site.upper()} Juego {n}"
TimeoutName(s, n) == <<"Timeout", " ", Upper(s), " ", "Juego", " ", ToString(n)>>
\* f"Juego {site.upper()} #{i+1}"
FallbackName(s, i) == <<"Juego", " ", Upper(s), " ", "#", ToString(i + 1)>>

(***************************************************************************)
(* Records.  url is the seed URL of a real record, or the example.com URL  *)
(* of a generated one.                                                      *)
(***************************************************************************)
SeedUrl(s, u) == [host |-> s, n |-> u]
ExampleUrl(n) == [host |-> "example.com/game", n |-> n]
Record(name, s, url) == [name |-> name, site |-> s, url |-> url]
Synthetic(r) == r.url.host = "example.com/game"

\* The catalog of this model: the name the item page at seed URL u of a
\* source carries after get_text(strip=True); <<>> is a page without a name.
PageName(s, u) ==
    CASE s = "steam" /\ u = 1 -> <<"Z">>
      [] s = "steam" /\ u = 2 -> <<"exclusivo", "\t", " ", "steam", " ", "juego", " ", "1">>
      [] s = "steam" /\ u = 3 -> <<>>
      [] s = "steam" /\ u = 4 -> <<"Z", ":">>
      [] s = "gog" /\ u = 1 -> <<"z", "TM">>
      [] s = "gog" /\ u = 2 -> <<"juego", " ", "steam", "\t", "#", "1">>
      [] s = "gog" /\ u = 3 -> <<"Z", "'">>
      [] s = "gmg" /\ u = 1 -> <<"Juego", " ", "STEAM", " ", "#", "2">>
      [] OTHER -> <<>>

(***************************************************************************)
(* Seed discovery.  A listing page is what fetch returned for it: ok is    *)
(* FALSE when fetch returned None, links are the hrefs of the page in      *)
(* order.  An href is a number: its last digit is the URL it stands for    *)
(* (0 for an href that is not an item link), the digits before it are the  *)
(* query string, or the relative or absolute form, it was written with.    *)
(***************************************************************************)
InSeq(x, w) == \E k \in 1..Len(w) : w[k] = x

\* href.split("?")[0] of seed_steam, urljoin(base, href) of seed_gog and
\* seed_gmg: the URL that is tested and appended
CleanUrl(href) == href % 10

\* a link loop that appends without looking at the list
RECURSIVE AddLinks_NoTest(_, _)
AddLinks_NoTest(urls, links) ==
    IF links = <<>> THEN urls
    ELSE IF CleanUrl(Head(links)) # 0
         THEN AddLinks_NoTest(Append(urls, CleanUrl(Head(links))), Tail(links))
         ELSE AddLinks_NoTest(urls, Tail(links))

\* the inner `for link in links` loop of a seeder
RECURSIVE AddLinks(_, _)
AddLinks(urls, links) ==
    IF links = <<>> THEN urls
    ELSE IF CleanUrl(Head(links)) # 0 /\ ~InSeq(CleanUrl(Head(links)), urls)
         THEN AddLinks(Append(urls, CleanUrl(Head(links))), Tail(links))
         ELSE AddLinks(urls, Tail(links))

\* the `for page in range(...)` loop of a seeder, from the pages still ahead
RECURSIVE SeedLoop(_, _, _)
SeedLoop(urls, pages, max_urls) ==
    IF pages = <<>> THEN urls
    ELSE IF ~Head(pages).ok THEN SeedLoop(urls, Tail(pages), max_urls)
    ELSE LET got == AddLinks(urls, Head(pages).links)
         IN  IF Len(got) >= max_urls THEN got
             ELSE SeedLoop(got, Tail(pages), max_urls)

seed_steam(pages, max_urls) == SeedLoop(<<>>, pages, max_urls)
seed_gog(pages, max_urls) == SeedLoop(<<>>, pages, max_urls)
seed_gmg(pages, max_urls) == SeedLoop(<<>>, pages, max_urls)

FailedPage == [ok |-> FALSE, links |-> <<>>]
Page(links) == [ok |-> TRUE, links |-> links]

\* What the listing pages of a source can hold in this model.
ListingPages(s) ==
    CASE s = "steam" -> {FailedPage, Page(<<1, 2>>), Page(<<1, 0, 3, 4>>)}
      [] s = "gog" -> {FailedPage, Page(<<1, 1, 2>>), Page(<<3, 1>>)}
      [] OTHER -> {FailedPage, Page(<<1>>)}

\* range(1, 30) for steam and gog, range(1, 20) for gmg, scaled
PageCount(s) == IF s = "gmg" THEN PageLimit - 1 ELSE PageLimit

\* The sequences of listing pages a discoverer can meet.  With the network
\* down every listing fetch returns None.
ListingRuns(s, down) ==
    IF down THEN {[p \in 1..PageCount(s) |-> FailedPage]}
    ELSE [1..PageCount(s) -> ListingPages(s)]

Discover(s, pages) ==
    CASE s = "steam" -> seed_steam(pages, SeedCap)
      [] s = "gog" -> seed_gog(pages, SeedCap)
      [] OTHER -> seed_gmg(pages, SeedCap)

(***************************************************************************)
(* Acceptance, backfill and fallback of scrape_site; the deadline path of  *)
(* run.  A state of the harvest is [res, seen, index].                     *)
(***************************************************************************)
Min(a, b) == IF a < b THEN a ELSE b

\* acceptance that consults only the names seen by this source
AcceptOne_SeenOnly(h, game) ==
    IF game = <<>> \/ game[1].name = <<>> THEN h
    ELSE IF normalize_game_name(game[1].name) \in h.seen THEN h
    ELSE [res |-> Append(h.res, game[1]),
          seen |-> h.seen \cup {normalize_game_name(game[1].name)},
          index |-> h.index \cup {normalize_game_name(game[1].name)}]

\* acceptance that appends the record and registers nothing
AcceptOne_NoRegister(h, game) ==
    IF game = <<>> \/ game[1].name = <<>> THEN h
    ELSE LET normalized_name == normalize_game_name(game[1].name)
         IN  IF normalized_name \notin h.seen /\ normalized_name \notin h.index
             THEN [h EXCEPT !.res = Append(h.res, game[1])]
             ELSE h

\* one iteration of `for task in done`: game is <<>> (None) or <<record>>
AcceptOne(h, game) ==
    IF game = <<>> \/ game[1].name = <<>> THEN h
    ELSE LET normalized_name == normalize_game_name(game[1].name)
         IN  IF normalized_name \notin h.seen /\ normalized_name \notin h.index
             THEN [res |-> Append(h.res, game[1]),
                   seen |-> h.seen \cup {normalized_name},
                   index |-> h.index \cup {normalized_name}]
             ELSE h

\* a loop in which every task tests the sets as they were before the loop
RECURSIVE AcceptAgainst(_, _, _)
AcceptAgainst(before, h, games) ==
    IF games = <<>> THEN h
    ELSE LET one == AcceptOne(before, Head(games))
             new == SubSeq(one.res, Len(before.res) + 1, Len(one.res))
         IN  AcceptAgainst(before,
                           [res |-> h.res \o new,
                            seen |-> h.seen \cup one.seen,
                            index |-> h.index \cup one.index],
                           Tail(games))

AcceptAll_Snapshot(h, games) == AcceptAgainst(h, h, games)

\* `for task in done`, in the order the set is iterated
RECURSIVE AcceptAll(_, _)
AcceptAll(h, games) ==
    IF games = <<>> THEN h ELSE AcceptAll(AcceptOne(h, Head(games)), Tail(games))

\* a backfill counter that is used as it comes
NextExclusivo_Unchecked(s, counter, h) == counter

\* a search that takes the second free counter value
RECURSIVE NextExclusivo_Second(_, _, _)
NextExclusivo_Second(s, counter, h) ==
    IF normalize_game_name(ExclusivoName(s, counter)) \notin h.seen
       /\ normalize_game_name(ExclusivoName(s, counter)) \notin h.index
       /\ normalize_game_name(ExclusivoName(s, counter - 1)) \notin h.seen
       /\ normalize_game_name(ExclusivoName(s, counter - 1)) \notin h.index
       /\ counter > 1
    THEN counter
    ELSE NextExclusivo_Second(s, counter + 1, h)

\* the `while True` search of the backfill: the first free counter value
RECURSIVE NextExclusivo(_, _, _)
NextExclusivo(s, counter, h) ==
    IF normalize_game_name(ExclusivoName(s, counter)) \notin h.seen
       /\ normalize_game_name(ExclusivoName(s, counter)) \notin h.index
    THEN counter
    ELSE NextExclusivo(s, counter + 1, h)

\* the values a harvest [res, seen, index] takes
Records == [name : Seq(STRING), site : SiteSet, url : [host : STRING, n : Int]]
Harvests == [res : Seq(Records), seen : SUBSET Seq(STRING), index : SUBSET Seq(STRING)]

\* `for _ in range(target - len(results))`, k iterations left
Backfill[s \in SiteSet, k \in Int, counter \in Int, h \in Harvests] ==
    IF k <= 0 THEN h
    ELSE LET n == NextExclusivo(s, counter, h)
             normalized_synthetic == normalize_game_name(ExclusivoName(s, n))
         IN  Backfill[s, k - 1, n + 1,
                      [res |-> Append(h.res, Record(ExclusivoName(s, n), s, ExampleUrl(n))),
                       seen |-> h.seen \cup {normalized_synthetic},
                       index |-> h.index \cup {normalized_synthetic}]]

\* a slice that keeps the last `target` records
Truncate_Last(w, target) == SubSeq(w, Len(w) - Min(Len(w), target) + 1, Len(w))

\* results[:target]
Truncate(w, target) == SubSeq(w, 1, Min(Len(w), target))

\* lines 616-644: backfill when short, then return results[:target]
Finish(s, h) ==
    LET filled == IF Len(h.res) < TARGET[s]
                  THEN Backfill[s, TARGET[s] - Len(h.res), 1, h]
                  ELSE h
    IN  [filled EXCEPT !.res = Truncate(filled.res, TARGET[s])]

\* a fallback list one record short
Fallback_Short(s) ==
    [i \in 1..(TARGET[s] - 1) |-> Record(FallbackName(s, i - 1), s, ExampleUrl(i - 1))]

\* lines 646-662: the handler's list
Fallback(s) == [i \in 1..TARGET[s] |-> Record(FallbackName(s, i - 1), s, ExampleUrl(i - 1))]

\* lines 685-710: the records of a source that run reaches at or after the deadline
RECURSIVE NextTimeout(_, _, _)
NextTimeout(s, counter, index) ==
    IF normalize_game_name(TimeoutName(s, counter)) \notin index THEN counter
    ELSE NextTimeout(s, counter + 1, index)

RECURSIVE TimeoutFill(_, _, _, _)
TimeoutFill(s, k, counter, h) ==
    IF k <= 0 THEN h
    ELSE LET n == NextTimeout(s, counter, h.index)
         IN  TimeoutFill(s, k - 1, n + 1,
                         [res |-> Append(h.res, Record(TimeoutName(s, n), s, ExampleUrl(n))),
                          seen |-> h.seen,
                          index |-> h.index \cup {normalize_game_name(TimeoutName(s, n))}])

(***************************************************************************)
(* State.                                                                  *)
(***************************************************************************)
VARIABLES
    concurrency,    \* args.concurrency
    deadline,       \* run: deadline = time.time() + timeout
    netDown,        \* environment: every GET attempt fails
    now,            \* time.time()
    rpc,            \* where run is: "loop", "scrape", "save_csv", "end", or
                    \* "interrupted" once main has reported a user interrupt
    siteIdx,        \* position of `for site in [...]`
    results,        \* run: results
    existing_games, \* run: existing_games, the shared index
    json_out,       \* <<>> or <<the list save_json was called with>>
    csv_out,        \* <<>> or <<the list save_csv was called with>>
    spc,            \* where scrape_site is: "idle", "seed", "wait", "sleep"
    seeds,          \* scrape_site: seeds
    site_results,   \* scrape_site: results
    seen_names,     \* scrape_site: seen_names
    idx,            \* scrape_site: idx
    attempts,       \* scrape_site: attempts
    batch,          \* the seed positions of the tasks asyncio.wait is waiting for
    dispatched,     \* scrape_site: every `batch` of line 588 so far, oldest first
    sem,            \* per source: the value of its asyncio.Semaphore
    tasks,          \* per source: one worker task per seed position
    path,           \* per source: how its records were produced
    fetched,        \* per source: a listing or item fetch was issued for it
    metDup,         \* per source: a task returned a record whose identity was in
                    \* the index when the source began
    accepted,       \* per source: the real records accepted, in acceptance order,
                    \* when scrape_site left its loop normally
    undispatched,   \* per source: the seeds never handed to a task at that moment
    leftRunning,    \* per source: tasks were still pending when scrape_site returned
    late,           \* per source: time.time() >= deadline held when run reached it
    indexAtStart,   \* per source: existing_games when run reached it
    f_pc,           \* fetch: "idle", "get", "sleep", "returned", "raised"
    f_attempt,      \* fetch: attempt of `for attempt in range(5)`
    f_trace,        \* fetch: the outcome of every GET made so far
    f_sleeps,       \* fetch: the sleep taken after every GET made so far
    f_ret,          \* fetch: <<>> before it returns, then <<value>>
    sd_pc,          \* seeder: "idle", "loop", "returned", "caught"
    sd_pages,       \* seeder: what fetch returns for each listing page
    sd_max,         \* seeder: max_urls
    sd_done,        \* seeder: the pages the `for` loop has gone through
    sd_urls,        \* seeder: urls
    m_txt,          \* money_to_float: txt
    m_ret,          \* money_to_float: <<>> before it returns, then <<value>>
    n_orig,         \* a game name
    n_cur,          \* the same name written differently
    n_calls,        \* how many times normalize_game_name was applied to n_cur
    r_pc,           \* a record in the making: "idle", "start", "task_done", "done"
    r_html,         \* scrape_game: <<>> or <<the item page fetch returned>>
    r_game,         \* <<>> (None) or <<the dict scrape_game returned>>
    r_out           \* the dicts appended to a results list

runVars == <<rpc, siteIdx, results, existing_games, json_out, csv_out>>
siteVars == <<spc, seeds, site_results, seen_names, idx, attempts, batch, dispatched>>
envVars == <<concurrency, deadline, netDown>>
histVars == <<path, fetched, late, indexAtStart, leftRunning, metDup, accepted, undispatched>>
fetchVars == <<f_pc, f_attempt, f_trace, f_sleeps, f_ret>>
seedVars == <<sd_pc, sd_pages, sd_max, sd_done, sd_urls>>
moneyVars == <<m_txt, m_ret>>
normVars == <<n_orig, n_cur, n_calls>>
recVars == <<r_pc, r_html, r_game, r_out>>
auxVars == <<seedVars, moneyVars, normVars, recVars>>
vars == <<envVars, now, runVars, siteVars, sem, tasks, histVars, fetchVars, auxVars>>

NoTask == [st |-> "new", res |-> <<>>, url |-> 0, ab |-> FALSE]

FetchIdle ==
    /\ f_pc = "idle" /\ f_attempt = 0 /\ f_trace = <<>> /\ f_sleeps = <<>> /\ f_ret = <<>>

SeedIdle ==
    /\ sd_pc = "idle" /\ sd_pages = <<>> /\ sd_max = 0 /\ sd_done = 0 /\ sd_urls = <<>>

MoneyIdle == m_txt = <<>> /\ m_ret = <<>>

NormIdle == n_orig = <<>> /\ n_cur = <<>> /\ n_calls = 0

RecIdle == r_pc = "idle" /\ r_html = <<>> /\ r_game = <<>> /\ r_out = <<>>

Init ==
    /\ concurrency \in ConcurrencyValues
    /\ deadline \in DeadlineValues
    /\ netDown \in BOOLEAN
    /\ now = 0
    /\ rpc = "loop" /\ siteIdx = 1 /\ results = <<>> /\ existing_games = {}
    /\ json_out = <<>> /\ csv_out = <<>>
    /\ spc = "idle" /\ seeds = <<>> /\ site_results = <<>> /\ seen_names = {}
    /\ idx = 0 /\ attempts = 0 /\ batch = {} /\ dispatched = <<>>
    /\ sem = [s \in SiteSet |-> 0]
    /\ tasks = [s \in SiteSet |-> <<>>]
    /\ path = [s \in SiteSet |-> "none"]
    /\ fetched = [s \in SiteSet |-> FALSE]
    /\ late = [s \in SiteSet |-> FALSE]
    /\ leftRunning = [s \in SiteSet |-> FALSE]
    /\ metDup = [s \in SiteSet |-> FALSE]
    /\ accepted = [s \in SiteSet |-> <<>>]
    /\ undispatched = [s \in SiteSet |-> 0]
    /\ indexAtStart = [s \in SiteSet |-> {}]
    /\ FetchIdle /\ SeedIdle /\ MoneyIdle /\ NormIdle /\ RecIdle

\* the sources taken from the last to the first
CurrentSite_Reversed == Sites[Len(Sites) + 1 - siteIdx]

CurrentSite == Sites[siteIdx]

(***************************************************************************)
(* scrape_site returns `list` to run, which extends its results with it    *)
(* and moves to the next source.  Tasks still pending are left running:   *)
(* nothing that run or a later scrape_site reads depends on them, and the  *)
(* model follows a source's tasks only until its scrape_site returns;      *)
(* leftRunning records that there were such tasks.                         *)
(***************************************************************************)
Abandon(tk, keep) ==
    [i \in 1..Len(tk) |->
        IF tk[i].st \in {"created", "waiting", "fetching"} /\ i \notin keep
        THEN [tk[i] EXCEPT !.ab = TRUE] ELSE tk[i]]

Pending(tk) == {i \in 1..Len(tk) : tk[i].st \in {"created", "waiting", "fetching"}}

ReturnToRun(s, list, index, how, tk, acc, left) ==
    /\ results' = results \o list
    /\ existing_games' = index
    /\ siteIdx' = siteIdx + 1
    /\ rpc' = "loop"
    /\ spc' = "idle" /\ seeds' = <<>> /\ site_results' = <<>> /\ seen_names' = {}
    /\ idx' = 0 /\ attempts' = 0 /\ batch' = {} /\ dispatched' = <<>>
    /\ tasks' = [tasks EXCEPT ![s] = <<>>]
    /\ sem' = [sem EXCEPT ![s] = 0]
    /\ leftRunning' = [leftRunning EXCEPT ![s] = Pending(tk) # {}]
    /\ accepted' = [accepted EXCEPT ![s] = acc]
    /\ undispatched' = [undispatched EXCEPT ![s] = left]
    /\ path' = [path EXCEPT ![s] = how]
    /\ UNCHANGED <<json_out, csv_out>>

\* the normal end of scrape_site, lines 616-644
ReturnNormal(s, h, tk, left) ==
    \E f \in {Finish(s, h)} : ReturnToRun(s, f.res, f.index, "normal", tk, h.res, left)

\* a handler that puts the index back as the source found it
ReturnFallback_RollsBack(s, index, tk) ==
    ReturnToRun(s, Fallback(s), indexAtStart[s], "fallback", tk, <<>>, 0)

\* the handler of scrape_site, lines 646-662: the index is left as it is
ReturnFallback(s, index, tk) ==
    ReturnToRun(s, Fallback(s), index, "fallback", tk, <<>>, 0)

(***************************************************************************)
(* The head of the `while` loop, lines 581-597, entered with the harvest   *)
(* h, idx i and attempts a: either a batch is dispatched and scrape_site   *)
(* awaits asyncio.wait, or the loop is left.  asyncio.wait raises          *)
(* ValueError on an empty list of tasks, which the handler catches.        *)
(***************************************************************************)
\* a loop condition that does not read the clock
LoopCondition_NoDeadline(s, sd, h, i, a) ==
    /\ Len(h.res) < TARGET[s]
    /\ i < Len(sd)
    /\ a < Len(sd)

LoopCondition(s, sd, h, i, a) ==
    /\ Len(h.res) < TARGET[s]
    /\ i < Len(sd)
    /\ now < deadline
    /\ a < Len(sd)

\* a batch size that is never below one seed
BatchSize_AtLeastOne(sd, i) ==
    Min(IF concurrency * BatchFactor < 1 THEN 1 ELSE concurrency * BatchFactor, Len(sd) - i)

\* line 587
BatchSize(sd, i) == Min(concurrency * BatchFactor, Len(sd) - i)

\* a slice that starts on the last seed of the batch before
BatchPositions_Overlap(i, batch_size) ==
    (IF i > 0 THEN i ELSE 1)..(i + batch_size)

\* the positions of seeds[idx:idx + batch_size] in seeds
BatchPositions(i, batch_size) == (i + 1)..(i + batch_size)

\* the URLs at the positions b, an interval, in the order of the list
Slice(sd, b) ==
    [k \in 1..Cardinality(b) |-> sd[(CHOOSE x \in b : \A y \in b : x <= y) + k - 1]]

CreateTasks(s, sd, tk, b) ==
    [k \in 1..Len(tk) |->
        IF k \in b THEN [st |-> "created", res |-> <<>>, url |-> sd[k], ab |-> FALSE]
        ELSE tk[k]]

LoopHead(s, sd, h, i, a, tk, sm) ==
    IF LoopCondition(s, sd, h, i, a)
    THEN LET batch_size == BatchSize(sd, i)
             b == BatchPositions(i, batch_size)
         IN  IF b = {}
             THEN ReturnFallback(s, h.index, tk)
             ELSE /\ spc' = "wait"
                  /\ seeds' = sd
                  /\ site_results' = h.res
                  /\ seen_names' = h.seen
                  /\ existing_games' = h.index
                  /\ idx' = i + batch_size
                  /\ attempts' = a + batch_size
                  /\ batch' = b
                  /\ dispatched' = Append(dispatched, Slice(sd, b))
                  /\ tasks' = [tasks EXCEPT ![s] = CreateTasks(s, sd, tk, b)]
                  /\ sem' = [sem EXCEPT ![s] = sm]
                  /\ UNCHANGED <<rpc, siteIdx, results, json_out, csv_out, path,
                                 leftRunning, accepted, undispatched>>
    ELSE ReturnNormal(s, h, tk, Len(sd) - i)

\* the deadline test with a strict comparison
DeadlineElapsed_Strict == now > deadline

(***************************************************************************)
(* run, lines 676-717.                                                     *)
(***************************************************************************)
\* line 685: `if time.time() >= deadline`
DeadlineElapsed == now >= deadline

\* line 685 is false: run calls scrape_site, which runs up to the first
\* await of its seed discoverer
RunCallScrape ==
    /\ rpc = "loop" /\ siteIdx <= Len(Sites)
    /\ ~DeadlineElapsed
    /\ rpc' = "scrape" /\ spc' = "seed"
    /\ late' = [late EXCEPT ![CurrentSite] = (now >= deadline)]
    /\ indexAtStart' = [indexAtStart EXCEPT ![CurrentSite] = existing_games]
    /\ UNCHANGED <<envVars, now, siteIdx, results, existing_games, json_out, csv_out,
                   seeds, site_results, seen_names, idx, attempts, batch, dispatched,
                   sem, tasks, path, fetched, leftRunning, metDup, accepted,
                   undispatched, fetchVars, auxVars>>

\* line 685 is true: the source gets TARGET[site] generated records
RunDeadlineSite ==
    /\ rpc = "loop" /\ siteIdx <= Len(Sites)
    /\ DeadlineElapsed
    /\ LET s == CurrentSite
           f == TimeoutFill(s, TARGET[s], 1, [res |-> <<>>, seen |-> {}, index |-> existing_games])
       IN  /\ results' = results \o f.res
           /\ existing_games' = f.index
           /\ path' = [path EXCEPT ![s] = "timeout"]
           /\ late' = [late EXCEPT ![s] = (now >= deadline)]
           /\ indexAtStart' = [indexAtStart EXCEPT ![s] = existing_games]
    /\ siteIdx' = siteIdx + 1
    /\ UNCHANGED <<envVars, now, rpc, json_out, csv_out, siteVars, sem, tasks,
                   fetched, leftRunning, metDup, accepted, undispatched, fetchVars, auxVars>>

\* a writer called only for a non-empty list
SaveJson_OnlyIfResults ==
    /\ rpc = "loop" /\ siteIdx > Len(Sites)
    /\ results # <<>>
    /\ json_out' = <<results>>
    /\ rpc' = "save_csv"
    /\ UNCHANGED <<envVars, now, siteIdx, results, existing_games, csv_out, siteVars,
                   sem, tasks, histVars, fetchVars, auxVars>>

\* line 716
SaveJson ==
    /\ rpc = "loop" /\ siteIdx > Len(Sites)
    /\ json_out' = <<results>>
    /\ rpc' = "save_csv"
    /\ UNCHANGED <<envVars, now, siteIdx, results, existing_games, csv_out, siteVars,
                   sem, tasks, histVars, fetchVars, auxVars>>

\* line 717
SaveCsv ==
    /\ rpc = "save_csv"
    /\ csv_out' = <<results>>
    /\ rpc' = "end"
    /\ UNCHANGED <<envVars, now, siteIdx, results, existing_games, json_out, siteVars,
                   sem, tasks, histVars, fetchVars, auxVars>>

(***************************************************************************)
(* scrape_site, lines 545-662.                                             *)
(***************************************************************************)
\* The discoverer returns: lines 550-597 up to the first asyncio.wait.
\* asyncio.Semaphore raises ValueError on a negative value.
Seeded ==
    /\ rpc = "scrape" /\ spc = "seed"
    /\ \E pages \in ListingRuns(CurrentSite, netDown) :
       \E sd \in {Discover(CurrentSite, pages)} :
         LET s == CurrentSite
             tk == [k \in 1..Len(sd) |-> NoTask]
             h == [res |-> <<>>, seen |-> {}, index |-> existing_games]
         IN  /\ fetched' = [fetched EXCEPT ![s] = TRUE]
             /\ IF sd = <<>>
                THEN ReturnToRun(s, <<>>, existing_games, "empty", <<>>, <<>>, 0)
                ELSE IF concurrency < 0
                THEN ReturnFallback(s, existing_games, <<>>)
                ELSE LoopHead(s, sd, h, 0, 0, tk, concurrency)
    /\ UNCHANGED <<envVars, now, late, indexAtStart, metDup, fetchVars, auxVars>>

\* every order in which `for task in done` can iterate the set
Orders(S) == {f \in [1..Cardinality(S) -> S] : \A a, b \in 1..Cardinality(S) : a # b => f[a] # f[b]}

\* the processing of a batch without the `break` of lines 611-612
ProcessBatch_NoBreak(s, done) ==
    \E order \in Orders(done) :
     \E h \in {AcceptAll([res |-> site_results, seen |-> seen_names,
                          index |-> existing_games],
                         [k \in 1..Len(order) |-> tasks[s][order[k]].res])} :
       LET tk == [i \in 1..Len(tasks[s]) |->
                    IF i \in done THEN [tasks[s][i] EXCEPT !.st = "consumed"]
                    ELSE tasks[s][i]]
       IN  /\ spc' = "sleep"
           /\ site_results' = h.res
           /\ seen_names' = h.seen
           /\ existing_games' = h.index
           /\ batch' = {}
           /\ tasks' = [tasks EXCEPT ![s] = Abandon(tk, {})]
           /\ UNCHANGED <<rpc, siteIdx, results, json_out, csv_out, path,
                          seeds, idx, attempts, dispatched, sem, leftRunning,
                          accepted, undispatched>>

\* asyncio.wait returned `done`: lines 599-614
ProcessBatch(s, done) ==
    \E order \in Orders(done) :
     \E h \in {AcceptAll([res |-> site_results, seen |-> seen_names,
                          index |-> existing_games],
                         [k \in 1..Len(order) |-> tasks[s][order[k]].res])} :
       LET tk == [i \in 1..Len(tasks[s]) |->
                    IF i \in done THEN [tasks[s][i] EXCEPT !.st = "consumed"]
                    ELSE tasks[s][i]]
       IN  IF Len(h.res) >= TARGET[s]
           THEN ReturnNormal(s, h, tk, Len(seeds) - idx)
           ELSE /\ spc' = "sleep"
                /\ site_results' = h.res
                /\ seen_names' = h.seen
                /\ existing_games' = h.index
                /\ batch' = {}
                /\ tasks' = [tasks EXCEPT ![s] = Abandon(tk, {})]
                /\ UNCHANGED <<rpc, siteIdx, results, json_out, csv_out, path,
                               seeds, idx, attempts, dispatched, sem, leftRunning,
                               accepted, undispatched>>

\* a `done` set that holds every finished task of the source
DoneOf_AnyBatch(s, b) == {i \in 1..Len(tasks[s]) : tasks[s][i].st = "done"}

DoneOf(s, b) == {i \in b : tasks[s][i].st = "done"}

\* every task of the batch completed before the 30 s of asyncio.wait
\* history: the batch brought a record already in the index at the start
MeetsDup(s, done) ==
    \E i \in done : /\ tasks[s][i].res # <<>>
                     /\ normalize_game_name(tasks[s][i].res[1].name) \in indexAtStart[s]

BatchDone ==
    /\ rpc = "scrape" /\ spc = "wait"
    /\ DoneOf(CurrentSite, batch) = batch
    /\ ProcessBatch(CurrentSite, batch)
    /\ metDup' = [metDup EXCEPT ![CurrentSite] = @ \/ MeetsDup(CurrentSite, batch)]
    /\ UNCHANGED <<envVars, now, fetched, late, indexAtStart, fetchVars, auxVars>>

\* an asyncio.wait without timeout: it returns only through BatchDone
BatchTimeout_NoTimeout == FALSE /\ UNCHANGED vars

\* the 30 s of asyncio.wait passed with a task of the batch still pending
BatchTimeout ==
    /\ rpc = "scrape" /\ spc = "wait"
    /\ DoneOf(CurrentSite, batch) # batch
    /\ \A i \in batch : tasks[CurrentSite][i].st # "created"
    /\ ProcessBatch(CurrentSite, DoneOf(CurrentSite, batch))
    /\ metDup' = [metDup EXCEPT ![CurrentSite] =
                     @ \/ MeetsDup(CurrentSite, DoneOf(CurrentSite, batch))]
    /\ UNCHANGED <<envVars, now, fetched, late, indexAtStart, fetchVars, auxVars>>

\* asyncio.sleep(0.5) of line 614 is over: back to the head of the loop
Wake ==
    /\ rpc = "scrape" /\ spc = "sleep"
    /\ LoopHead(CurrentSite, seeds,
                [res |-> site_results, seen |-> seen_names, index |-> existing_games],
                idx, attempts, tasks[CurrentSite], sem[CurrentSite])
    /\ UNCHANGED <<envVars, now, fetched, late, indexAtStart, metDup, fetchVars, auxVars>>

\* an Exception raised inside the try of scrape_site, in the code that runs
\* when the discoverer or the pause of line 614 returns
SiteFault ==
    /\ rpc = "scrape" /\ spc \in {"seed", "sleep"}
    /\ ReturnFallback(CurrentSite, existing_games, tasks[CurrentSite])
    /\ UNCHANGED <<envVars, now, fetched, late, indexAtStart, metDup, fetchVars, auxVars>>

\* a gate that admits every worker
CanAcquire_Always(value) == TRUE

(***************************************************************************)
(* worker, lines 569-576, and scrape_game, lines 395-419.  The event loop  *)
(* runs the first step of every task of a batch back to back, in creation  *)
(* order, as soon as scrape_site awaits asyncio.wait; a released slot goes *)
(* to the task that has waited longest.                                    *)
(***************************************************************************)
\* `async with sem`: a slot is taken only when the value is positive
CanAcquire(value) == value > 0

\* the first step of one task: the deadline test of line 570, then sem.acquire()
StartOne(w, i) ==
    IF now > deadline
    THEN [w EXCEPT !.tk[i].st = "done"]
    ELSE IF CanAcquire(w.sem)
    THEN [w EXCEPT !.tk[i].st = "fetching", !.sem = w.sem - 1]
    ELSE [w EXCEPT !.tk[i].st = "waiting"]

\* the first steps of the tasks at positions i..last
RECURSIVE StartFrom(_, _, _)
StartFrom(w, i, last) ==
    IF i > last THEN w ELSE StartFrom(StartOne(w, i), i + 1, last)

Created(s) == {i \in 1..Len(tasks[s]) : tasks[s][i].st = "created"}
Waiting(s) == {i \in 1..Len(tasks[s]) : tasks[s][i].st = "waiting"}
InGate(s) == {i \in 1..Len(tasks[s]) : tasks[s][i].st = "fetching"}
SetMin(S) == CHOOSE x \in S : \A y \in S : x <= y
SetMax(S) == CHOOSE x \in S : \A y \in S : x >= y

workerFrame == <<envVars, now, runVars, siteVars, path, late, indexAtStart,
                 leftRunning, metDup, accepted, undispatched, fetchVars, auxVars>>

\* the tasks asyncio.create_task made for the batch run their first step
WorkersStart ==
    /\ rpc = "scrape" /\ spc = "wait"
    /\ Created(CurrentSite) # {}
    /\ LET s == CurrentSite
           w == StartFrom([tk |-> tasks[s], sem |-> sem[s]],
                          SetMin(Created(s)), SetMax(Created(s)))
       IN  /\ tasks' = [tasks EXCEPT ![s] = w.tk]
           /\ sem' = [sem EXCEPT ![s] = w.sem]
           /\ fetched' = [fetched EXCEPT ![s] = fetched[s] \/ w.sem < sem[s]]
    /\ UNCHANGED workerFrame

\* what scrape_game returns: None when fetch returned None (always, with
\* the network down) or the parser found no name, else the parsed record
\* with its url
GameResults(s, url, down) ==
    {<<>>} \cup (IF down \/ PageName(s, url) = <<>> THEN {}
                 ELSE {<<Record(PageName(s, url), s, SeedUrl(s, url))>>})

\* a woken waiter takes the slot that was released to it
StartOneWaiter(w, i) == [w EXCEPT !.tk[i].st = "fetching"]

\* a release that hands the slot to a waiter but never puts it back
Release_KeepsSlot(w) ==
    LET waiting == {i \in 1..Len(w.tk) : w.tk[i].st = "waiting"}
    IN  IF waiting = {} THEN w
        ELSE StartOneWaiter(w, SetMin(waiting))

\* sem.release() on leaving `async with sem`: the longest waiter, if there
\* is one, takes the slot
Release(w) ==
    LET waiting == {i \in 1..Len(w.tk) : w.tk[i].st = "waiting"}
    IN  IF waiting = {} THEN [w EXCEPT !.sem = w.sem + 1]
        ELSE StartOneWaiter(w, SetMin(waiting))

\* scrape_game returned in the task at position i of source s
WorkerFinish(s, i) ==
    /\ rpc = "scrape"
    /\ tasks[s][i].st = "fetching"
    /\ \E game \in GameResults(s, tasks[s][i].url, netDown) :
         LET w == Release([tk |-> [tasks[s] EXCEPT ![i].st = "done", ![i].res = game],
                           sem |-> sem[s]])
         IN  /\ tasks' = [tasks EXCEPT ![s] = w.tk]
             /\ sem' = [sem EXCEPT ![s] = w.sem]
    /\ UNCHANGED <<fetched>>
    /\ UNCHANGED workerFrame

Worker ==
    /\ siteIdx <= Len(Sites)
    /\ \E i \in 1..Len(tasks[CurrentSite]) : WorkerFinish(CurrentSite, i)

\* the clock advances
Tick ==
    /\ now < MaxTime
    /\ now' = now + 1
    /\ UNCHANGED <<envVars, runVars, siteVars, sem, tasks, histVars, fetchVars, auxVars>>

\* an interrupt after which the list gathered so far is written
Interrupt_SavesPartial ==
    /\ rpc \in {"loop", "scrape"}
    /\ rpc' = "interrupted"
    /\ json_out' = <<results>> /\ csv_out' = <<results>>
    /\ spc' = "idle" /\ seeds' = <<>> /\ site_results' = <<>> /\ seen_names' = {}
    /\ idx' = 0 /\ attempts' = 0 /\ batch' = {} /\ dispatched' = <<>>
    /\ tasks' = [s \in SiteSet |-> <<>>]
    /\ sem' = [s \in SiteSet |-> 0]
    /\ UNCHANGED <<envVars, now, siteIdx, results, existing_games,
                   histVars, fetchVars, auxVars>>

(***************************************************************************)
(* A user interrupt before the save step, lines 777-780.  KeyboardInterrupt *)
(* and the CancelledError asyncio.run delivers to run are not Exceptions:  *)
(* neither the handler of scrape_site (line 646) nor that of run (line     *)
(* 722) catches them.  asyncio.run cancels every task and main reports.    *)
(***************************************************************************)
Interrupt ==
    /\ rpc \in {"loop", "scrape"}
    /\ rpc' = "interrupted"
    /\ spc' = "idle" /\ seeds' = <<>> /\ site_results' = <<>> /\ seen_names' = {}
    /\ idx' = 0 /\ attempts' = 0 /\ batch' = {} /\ dispatched' = <<>>
    /\ tasks' = [s \in SiteSet |-> <<>>]
    /\ sem' = [s \in SiteSet |-> 0]
    /\ UNCHANGED <<envVars, now, siteIdx, results, existing_games, json_out, csv_out,
                   histVars, fetchVars, auxVars>>

Next ==
    \/ RunCallScrape \/ RunDeadlineSite \/ SaveJson \/ SaveCsv
    \/ Seeded \/ BatchDone \/ BatchTimeout \/ Wake \/ SiteFault
    \/ WorkersStart \/ Worker \/ Tick \/ Interrupt

Spec == Init /\ [][Next]_vars

(***************************************************************************)
(* The run with the network down from start to end.  Every listing fetch   *)
(* fails, so every seeder returns an empty list (NetDownNoHarvest below    *)
(* states this of Spec) and no task is ever created: the steps left are    *)
(* those of run and of scrape_site up to its return.  The event loop runs  *)
(* whatever is ready, so a step that can be taken is eventually taken.     *)
(***************************************************************************)
NetDownInit == Init /\ netDown

NetDownNext ==
    \/ RunCallScrape \/ RunDeadlineSite \/ SaveJson \/ SaveCsv
    \/ Seeded \/ SiteFault \/ Tick

NetDownSpec == NetDownInit /\ [][NetDownNext]_vars /\ WF_vars(NetDownNext)

(***************************************************************************)
(* The run with --concurrency 0 or negative (main puts no bound on it,     *)
(* lines 768-773).  scrape_site comes to no await after its discoverer has *)
(* returned, so the steps are those of run and of scrape_site up to its    *)
(* return, scheduled as in NetDownSpec.                                    *)
(***************************************************************************)
NoSlotInit == Init /\ concurrency <= 0

NoSlotNext ==
    \/ RunCallScrape \/ RunDeadlineSite \/ SaveJson \/ SaveCsv
    \/ Seeded \/ SiteFault \/ Tick

NoSlotSpec == NoSlotInit /\ [][NoSlotNext]_vars /\ WF_vars(NoSlotNext)

(***************************************************************************)
(* The harvest of scrape_site with C >= 1 and a deadline that never        *)
(* passes.  What scrape_site awaits comes back: a discoverer returns,      *)
(* asyncio.wait returns after its timeout at the latest, the pause of line *)
(* 614 ends; the event loop runs the first step of the tasks it was given. *)
(* Nothing is assumed of the fetches: a task may never finish.  The clock  *)
(* is left out: with such a deadline no test of it changes.                *)
(***************************************************************************)
HarvestInit == Init /\ concurrency >= 1 /\ deadline > MaxTime

SiteStep == RunCallScrape \/ Seeded \/ BatchDone \/ BatchTimeout \/ Wake

HarvestNext == SiteStep \/ WorkersStart \/ Worker

HarvestSpec ==
    HarvestInit /\ [][HarvestNext]_vars /\ WF_vars(SiteStep) /\ WF_vars(WorkersStart)

(***************************************************************************)
(* fetch, lines 111-132, one call followed attempt by attempt.  An outcome *)
(* is what one `session.get` brings: a response with its status, whose     *)
(* body resp.text() then reads or fails to read, or no response at all.    *)
(***************************************************************************)
GetOutcomes(down) ==
    IF down THEN {"timeout", "error"}
    ELSE {"200", "200_text_timeout", "200_text_error", "429", "other", "timeout", "error"}

\* the status of the response of an outcome (0: there was no response)
Status(o) ==
    CASE o \in {"200", "200_text_timeout", "200_text_error"} -> 200
      [] o = "429" -> 429
      [] o = "other" -> 500
      [] OTHER -> 0

\* a loop body with no `except Exception` clause
FetchHandle_TimeoutOnly(o, attempt) ==
    CASE o = "200" -> [act |-> "return", secs |-> 0]
      [] o = "429" -> [act |-> "sleep", secs |-> RateLimitBase * (attempt + 1)]
      [] o = "other" -> [act |-> "sleep", secs |-> 1]
      [] o \in {"timeout", "200_text_timeout"} -> [act |-> "sleep", secs |-> 2]
      [] OTHER -> [act |-> "raise", secs |-> 0]

\* a loop body whose backoff is the same after every attempt
FetchHandle_FlatBackoff(o, attempt) ==
    CASE o = "200" -> [act |-> "return", secs |-> 0]
      [] o = "429" -> [act |-> "sleep", secs |-> RateLimitBase]
      [] o = "other" -> [act |-> "sleep", secs |-> 1]
      [] o \in {"timeout", "200_text_timeout"} -> [act |-> "sleep", secs |-> 2]
      [] OTHER -> [act |-> "sleep", secs |-> 1]

\* the body of the `for` loop for one outcome, lines 114-130
FetchHandle(o, attempt) ==
    CASE o = "200" -> [act |-> "return", secs |-> 0]
      [] o = "429" -> [act |-> "sleep", secs |-> RateLimitBase * (attempt + 1)]
      [] o = "other" -> [act |-> "sleep", secs |-> 1]
      [] o \in {"timeout", "200_text_timeout"} -> [act |-> "sleep", secs |-> 2]
      [] OTHER -> [act |-> "sleep", secs |-> 1]

Content(k) == [ok |-> TRUE, body |-> k]
NoContent == [ok |-> FALSE, body |-> 0]

FetchInit ==
    /\ concurrency = 1 /\ deadline = 0 /\ netDown \in BOOLEAN /\ now = 0
    /\ rpc = "end" /\ siteIdx = 1 /\ results = <<>> /\ existing_games = {}
    /\ json_out = <<>> /\ csv_out = <<>>
    /\ spc = "idle" /\ seeds = <<>> /\ site_results = <<>> /\ seen_names = {}
    /\ idx = 0 /\ attempts = 0 /\ batch = {} /\ dispatched = <<>>
    /\ sem = [s \in SiteSet |-> 0]
    /\ tasks = [s \in SiteSet |-> <<>>]
    /\ path = [s \in SiteSet |-> "none"]
    /\ fetched = [s \in SiteSet |-> FALSE]
    /\ late = [s \in SiteSet |-> FALSE]
    /\ leftRunning = [s \in SiteSet |-> FALSE]
    /\ metDup = [s \in SiteSet |-> FALSE]
    /\ accepted = [s \in SiteSet |-> <<>>]
    /\ undispatched = [s \in SiteSet |-> 0]
    /\ indexAtStart = [s \in SiteSet |-> {}]
    /\ f_pc = "get" /\ f_attempt = 0 /\ f_trace = <<>> /\ f_sleeps = <<>> /\ f_ret = <<>>
    /\ SeedIdle /\ MoneyIdle /\ NormIdle /\ RecIdle

fetchFrame == <<envVars, now, runVars, siteVars, sem, tasks, histVars, auxVars>>

\* one pass through the try block: the GET and what its outcome leads to
FetchGet ==
    /\ f_pc = "get"
    /\ \E o \in GetOutcomes(netDown) :
         LET hd == FetchHandle(o, f_attempt)
         IN  /\ f_trace' = Append(f_trace, o)
             /\ CASE hd.act = "return" ->
                       /\ f_pc' = "returned"
                       /\ f_ret' = <<Content(f_attempt + 1)>>
                       /\ UNCHANGED <<f_sleeps, f_attempt>>
                  [] hd.act = "sleep" ->
                       /\ f_pc' = "sleep"
                       /\ f_sleeps' = Append(f_sleeps, hd.secs)
                       /\ UNCHANGED <<f_ret, f_attempt>>
                  [] OTHER ->
                       /\ f_pc' = "raised"
                       /\ UNCHANGED <<f_sleeps, f_ret, f_attempt>>
    /\ UNCHANGED fetchFrame

\* the sleep is over: the next attempt, or `return None` after the last
FetchSleepOver ==
    /\ f_pc = "sleep"
    /\ f_attempt' = f_attempt + 1
    /\ IF f_attempt + 1 < FetchAttempts
       THEN f_pc' = "get" /\ f_ret' = f_ret
       ELSE f_pc' = "returned" /\ f_ret' = <<NoContent>>
    /\ UNCHANGED <<f_trace, f_sleeps>>
    /\ UNCHANGED fetchFrame

FetchNext == FetchGet \/ FetchSleepOver

FetchSpec == FetchInit /\ [][FetchNext]_vars

(***************************************************************************)
(* run and scrape_site at rest: the state in which one function of the     *)
(* module is followed on its own.                                          *)
(***************************************************************************)
AtRest ==
    /\ concurrency = 1 /\ deadline = 0 /\ netDown = FALSE /\ now = 0
    /\ rpc = "end" /\ siteIdx = 1 /\ results = <<>> /\ existing_games = {}
    /\ json_out = <<>> /\ csv_out = <<>>
    /\ spc = "idle" /\ seeds = <<>> /\ site_results = <<>> /\ seen_names = {}
    /\ idx = 0 /\ attempts = 0 /\ batch = {} /\ dispatched = <<>>
    /\ sem = [s \in SiteSet |-> 0]
    /\ tasks = [s \in SiteSet |-> <<>>]
    /\ path = [s \in SiteSet |-> "none"]
    /\ fetched = [s \in SiteSet |-> FALSE]
    /\ late = [s \in SiteSet |-> FALSE]
    /\ leftRunning = [s \in SiteSet |-> FALSE]
    /\ metDup = [s \in SiteSet |-> FALSE]
    /\ accepted = [s \in SiteSet |-> <<>>]
    /\ undispatched = [s \in SiteSet |-> 0]
    /\ indexAtStart = [s \in SiteSet |-> {}]

restVars == <<envVars, now, runVars, siteVars, sem, tasks, histVars>>

(***************************************************************************)
(* A seed discoverer, lines 423-450 (seed_gog 452-479 and seed_gmg 481-520 *)
(* have the same loop), followed page by page.  sd_pages[k] is what fetch  *)
(* returns for the k-th listing page.                                      *)
(***************************************************************************)
SeedPageLimit == PageLimit + 1

\* the listing pages a discoverer is tried on
SeedPages ==
    {FailedPage, Page(<<>>), Page(<<1>>), Page(<<1, 2>>), Page(<<2, 0, 1>>),
     Page(<<3>>), Page(<<1, 1>>), Page(<<11, 2>>)}

SeedInit ==
    /\ AtRest /\ FetchIdle /\ MoneyIdle /\ NormIdle /\ RecIdle
    /\ sd_pc = "loop"
    /\ sd_pages \in [1..SeedPageLimit -> SeedPages]
    /\ sd_max \in 1..SeedCap
    /\ sd_done = 0
    /\ sd_urls = <<>>

seedFrame == <<restVars, fetchVars, moneyVars, normVars, recVars, sd_pages, sd_max>>

\* a failed page that ends the loop
SeedSkip_Break ==
    /\ sd_pc = "loop" /\ sd_done < Len(sd_pages)
    /\ ~sd_pages[sd_done + 1].ok
    /\ sd_done' = sd_done + 1
    /\ sd_pc' = "returned"
    /\ UNCHANGED sd_urls
    /\ UNCHANGED seedFrame

\* `if not html: continue`
SeedSkip ==
    /\ sd_pc = "loop" /\ sd_done < Len(sd_pages)
    /\ ~sd_pages[sd_done + 1].ok
    /\ sd_done' = sd_done + 1
    /\ UNCHANGED <<sd_pc, sd_urls>>
    /\ UNCHANGED seedFrame

\* a loaded page after which the cap is not tested
SeedTake_NoCap ==
    /\ sd_pc = "loop" /\ sd_done < Len(sd_pages)
    /\ sd_pages[sd_done + 1].ok
    /\ sd_urls' = AddLinks(sd_urls, sd_pages[sd_done + 1].links)
    /\ sd_done' = sd_done + 1
    /\ UNCHANGED sd_pc
    /\ UNCHANGED seedFrame

\* a page that loaded: its links are added, then the cap is tested
SeedTake ==
    /\ sd_pc = "loop" /\ sd_done < Len(sd_pages)
    /\ sd_pages[sd_done + 1].ok
    /\ sd_urls' = AddLinks(sd_urls, sd_pages[sd_done + 1].links)
    /\ sd_done' = sd_done + 1
    /\ sd_pc' = IF Len(sd_urls') >= sd_max THEN "returned" ELSE "loop"
    /\ UNCHANGED seedFrame

\* an Exception while a loaded page is parsed or its links are gone
\* through: `except Exception: return urls`, with what was appended so far
SeedFault ==
    /\ sd_pc = "loop" /\ sd_done < Len(sd_pages)
    /\ sd_pages[sd_done + 1].ok
    /\ \E j \in 0..Len(sd_pages[sd_done + 1].links) :
         sd_urls' = AddLinks(sd_urls, SubSeq(sd_pages[sd_done + 1].links, 1, j))
    /\ sd_pc' = "caught"
    /\ UNCHANGED sd_done
    /\ UNCHANGED seedFrame

\* the `for` loop ran out of pages: `return urls`
SeedReturn ==
    /\ sd_pc = "loop" /\ sd_done = Len(sd_pages)
    /\ sd_pc' = "returned"
    /\ UNCHANGED <<sd_done, sd_urls>>
    /\ UNCHANGED seedFrame

SeedNext == SeedSkip \/ SeedTake \/ SeedFault \/ SeedReturn

SeedSpec == SeedInit /\ [][SeedNext]_vars

\* The discoverer is a coroutine scrape_site awaits: the event loop resumes
\* it whenever the fetch or the sleep it awaits is over, and both end (a
\* fetch makes at most FetchAttempts attempts, each under a time limit).
SeedLiveSpec == SeedSpec /\ WF_vars(SeedNext)

(***************************************************************************)
(* money_to_float, lines 53-69.  A text is a sequence of characters; the   *)
(* float returned is kept as the fraction num / den that its decimal       *)
(* digits denote.                                                          *)
(***************************************************************************)
DigitValue ==
    ("0" :> 0) @@ ("1" :> 1) @@ ("2" :> 2) @@ ("3" :> 3) @@ ("4" :> 4) @@
    ("5" :> 5) @@ ("6" :> 6) @@ ("7" :> 7) @@ ("8" :> 8) @@ ("9" :> 9)

Digits == DOMAIN DigitValue

Has(c, w) == \E k \in 1..Len(w) : w[k] = c
Count(c, w) == Cardinality({k \in 1..Len(w) : w[k] = c})

\* re.sub(r"[^0-9\.,]", "", txt)
KeepMoneyChars(txt) == SelectSeq(txt, LAMBDA c : c \in Digits \cup {".", ","})

\* str.replace(",", "")
DropCommas(w) == SelectSeq(w, LAMBDA c : c # ",")

\* str.replace(",", ".")
CommasToDots(w) == [k \in 1..Len(w) |-> IF w[k] = "," THEN "." ELSE w[k]]

\* the integer a sequence of digits denotes
RECURSIVE DigitsToInt(_)
DigitsToInt(w) ==
    IF w = <<>> THEN 0
    ELSE 10 * DigitsToInt(SubSeq(w, 1, Len(w) - 1)) + DigitValue[w[Len(w)]]

RECURSIVE Pow10(_)
Pow10(n) == IF n = 0 THEN 1 ELSE 10 * Pow10(n - 1)

NoValue == [ok |-> FALSE, num |-> 0, den |-> 1]
Value(num, den) == [ok |-> TRUE, num |-> num, den |-> den]

\* float(clean) inside the try, for a text of digits and points: a number
\* when there is a digit and at most one point, else ValueError
ParseFloat(w) ==
    IF Count(".", w) > 1 \/ \A k \in 1..Len(w) : w[k] \notin Digits
    THEN NoValue
    ELSE LET point == IF Has(".", w) THEN CHOOSE k \in 1..Len(w) : w[k] = "." ELSE Len(w) + 1
             digits == SelectSeq(w, LAMBDA c : c \in Digits)
         IN  Value(DigitsToInt(digits), Pow10(Len(w) + 1 - point - (IF Has(".", w) THEN 1 ELSE 0)))

money_to_float(txt) ==
    IF txt = <<>> THEN NoValue
    ELSE LET clean == KeepMoneyChars(txt)
         IN  IF clean = <<>> THEN NoValue
             ELSE IF Has(",", clean) /\ Has(".", clean) THEN ParseFloat(DropCommas(clean))
             ELSE IF Has(",", clean) THEN ParseFloat(CommasToDots(clean))
             ELSE ParseFloat(clean)

MoneyChars == {"1", "9", ".", ",", "$"}

\* the texts money_to_float is tried on: every short text over MoneyChars
\* and the prices of the documentation
MoneyTexts ==
    UNION {[1..n -> MoneyChars] : n \in 0..MaxMoneyLen}
    \cup {<<"$", "1", "9", ".", "9", "9">>,
          <<"1", ".", "2", "3", "4", ",", "5", "6">>,
          <<"1", "9", ",", "9", "9">>,
          <<"U", "S", "D">>,
          <<"1", ".", "2", ".", "3">>}

MoneyInit ==
    /\ AtRest /\ FetchIdle /\ SeedIdle /\ NormIdle /\ RecIdle
    /\ m_txt \in MoneyTexts
    /\ m_ret = <<>>

MoneyCall ==
    /\ m_ret = <<>>
    /\ m_ret' = <<money_to_float(m_txt)>>
    /\ UNCHANGED <<restVars, fetchVars, seedVars, normVars, recVars, m_txt>>

MoneySpec == MoneyInit /\ [][MoneyCall]_vars

(***************************************************************************)
(* normalize_game_name on names that are written differently, lines        *)
(* 524-531.  n_orig is a name and n_cur the same name after any number of   *)
(* rewritings, each of which changes the case of a symbol, puts in or takes *)
(* out a trademark symbol, or changes an amount of whitespace.              *)
(***************************************************************************)
TrademarkSymbols == {"TM", "(R)", "(C)"}

\* symbols that str.lower() tells apart from their lower-case form, and
\* those forms
CaseSymbols == DOMAIN LowerTable \cup {LowerTable[c] : c \in DOMAIN LowerTable}

InsertAt(w, k, c) == SubSeq(w, 1, k - 1) \o <<c>> \o SubSeq(w, k, Len(w))
RemoveAt(w, k) == SubSeq(w, 1, k - 1) \o SubSeq(w, k + 1, Len(w))

NormNames ==
    {<<>>,
     <<"The", " ", "Witcher", " ", "3", "TM">>,
     <<"the", " ", "witcher", " ", "3">>,
     <<" ", "Z", "(R)", ":", "\t", "3">>}

NormInit ==
    /\ AtRest /\ FetchIdle /\ SeedIdle /\ MoneyIdle /\ RecIdle
    /\ n_orig \in NormNames
    /\ n_cur = n_orig
    /\ n_calls = 0

normFrame == <<restVars, fetchVars, seedVars, moneyVars, recVars, n_orig, n_calls>>

MayGrow == Len(n_cur) < Len(n_orig) + NameSlack

ChangeCase ==
    /\ \E k \in 1..Len(n_cur), c \in CaseSymbols :
          /\ c # n_cur[k]
          /\ Lower(c) = Lower(n_cur[k])
          /\ n_cur' = [n_cur EXCEPT ![k] = c]
    /\ UNCHANGED normFrame

AddSymbol ==
    /\ MayGrow
    /\ \E k \in 1..(Len(n_cur) + 1), c \in TrademarkSymbols :
          n_cur' = InsertAt(n_cur, k, c)
    /\ UNCHANGED normFrame

DropSymbol ==
    /\ \E k \in 1..Len(n_cur) :
          /\ n_cur[k] \in TrademarkSymbols
          /\ n_cur' = RemoveAt(n_cur, k)
    /\ UNCHANGED normFrame

\* one more whitespace character in a run of whitespace
WidenSpace ==
    /\ MayGrow
    /\ \E k \in 1..Len(n_cur), c \in Whitespace :
          /\ n_cur[k] \in Whitespace
          /\ n_cur' \in {InsertAt(n_cur, k, c), InsertAt(n_cur, k + 1, c)}
    /\ UNCHANGED normFrame

\* one whitespace character fewer in a run of two or more
NarrowSpace ==
    /\ \E k \in 1..(Len(n_cur) - 1) :
          /\ n_cur[k] \in Whitespace
          /\ n_cur[k + 1] \in Whitespace
          /\ n_cur' \in {RemoveAt(n_cur, k), RemoveAt(n_cur, k + 1)}
    /\ UNCHANGED normFrame

\* whitespace put before or after the name
Pad ==
    /\ MayGrow
    /\ \E c \in Whitespace :
          n_cur' \in {<<c>> \o n_cur, n_cur \o <<c>>}
    /\ UNCHANGED normFrame

\* leading or trailing whitespace taken away
Trim ==
    /\ n_cur # <<>>
    /\ \/ Head(n_cur) \in Whitespace /\ n_cur' = Tail(n_cur)
       \/ /\ n_cur[Len(n_cur)] \in Whitespace
          /\ n_cur' = SubSeq(n_cur, 1, Len(n_cur) - 1)
    /\ UNCHANGED normFrame

NormNext ==
    \/ ChangeCase
    \/ AddSymbol
    \/ DropSymbol
    \/ WidenSpace
    \/ NarrowSpace
    \/ Pad
    \/ Trim

NormSpec == NormInit /\ [][NormNext]_vars

(***************************************************************************)
(* normalize_game_name applied to its own result.  The names are all the   *)
(* sequences of up to MaxNameLen symbols over a letter in both cases, the  *)
(* six symbols the first substitution removes, another punctuation mark,   *)
(* and two kinds of whitespace.                                            *)
(***************************************************************************)
IdemAlphabet == {"Z", "z"} \cup StripSymbols \cup {"#"} \cup Whitespace

IdemNames == UNION {[1..k -> IdemAlphabet] : k \in 0..MaxNameLen}

IdemInit ==
    /\ AtRest /\ FetchIdle /\ SeedIdle /\ MoneyIdle /\ RecIdle
    /\ n_orig \in IdemNames
    /\ n_cur = n_orig
    /\ n_calls = 0

\* n_cur = normalize_game_name(n_cur), at most twice
IdemCall ==
    /\ n_calls < 2
    /\ n_cur' = normalize_game_name(n_cur)
    /\ n_calls' = n_calls + 1
    /\ UNCHANGED <<restVars, fetchVars, seedVars, moneyVars, recVars, n_orig>>

IdemSpec == IdemInit /\ [][IdemCall]_vars

(***************************************************************************)
(* The dicts of the output, lines 181-419 and the literals of lines        *)
(* 627-638, 650-661, 696-707 and 739-750.  An item page is what the        *)
(* parser's selectors find in it: an element is <<>> when the selector      *)
(* finds none and <<text>> otherwise, text being its get_text(strip=True);  *)
(* an attribute is "absent" (no tag), "noattr" (tag without it), "empty"    *)
(* or "url".  A price is the value money_to_float gives, NoValue being      *)
(* None.  Spec keeps of each dict its name, site and url.                   *)
(***************************************************************************)
TenFields ==
    {"name", "price_regular", "price_discount", "rating", "platforms",
     "howlongtobeat", "distribution_type", "site", "url", "image_url"}

\* None where a str is expected
NoneStr == "None"

\* values drawn by the random module: an end of each range
RandomPrices == {499, 5999}
SteamGogPercents == {0, 30}
GmgPercents == {0, 30}
Ratings == {80, 99}
Distributions == {"Digital", "Fisico", "Digital y fisico"}

\* what a parser draws
ParseRandoms(s) ==
    [price : RandomPrices,
     pct : IF s = "gmg" THEN GmgPercents ELSE SteamGogPercents,
     rating : Ratings, u : {"lo", "hi"}]

\* what a dict literal draws
Randoms ==
    [price : RandomPrices, price2 : RandomPrices,
     rating : Ratings, dist : Distributions, u : {"lo", "hi"}]

\* `not price` is false
Truthy(v) == v.ok /\ v.num # 0

\* generate_random_price() and round(price_regular * (1 - pct / 100), 2), in cents
GeneratedPrices(rnd) ==
    [r |-> Value(rnd.price, 100),
     d |-> Value((rnd.price * (100 - rnd.pct) + 50) \div 100, 100)]

ElementPrice(el) == IF el # <<>> THEN money_to_float(el[1]) ELSE NoValue

\* name_el.get_text(strip=True) if name_el else None; None and "" are <<>>
ElementName(el) == IF el # <<>> THEN el[1] ELSE <<>>

\* lines 196-218
SteamPrices(p, rnd) ==
    LET first == IF p.discount_el # <<>>
                 THEN [d |-> ElementPrice(p.discount_el), r |-> ElementPrice(p.original_el)]
                 ELSE IF p.single_el # <<>> /\ Truthy(ElementPrice(p.single_el))
                 THEN [d |-> ElementPrice(p.single_el), r |-> ElementPrice(p.single_el)]
                 ELSE [d |-> NoValue, r |-> NoValue]
        second == IF ~Truthy(first.r) THEN GeneratedPrices(rnd) ELSE first
    IN  [r |-> second.r, d |-> IF ~Truthy(second.d) THEN second.r ELSE second.d]

\* lines 266-283
GogPrices(p, rnd) ==
    LET first == IF p.price_final # <<>>
                 THEN [d |-> ElementPrice(p.price_final),
                       r |-> IF p.price_base # <<>> THEN ElementPrice(p.price_base)
                             ELSE ElementPrice(p.price_final)]
                 ELSE [d |-> NoValue, r |-> NoValue]
        second == IF ~Truthy(first.r) THEN GeneratedPrices(rnd) ELSE first
    IN  [r |-> second.r, d |-> IF ~Truthy(second.d) THEN second.r ELSE second.d]

\* the prices of parse_gmg as the page gives them, nothing filled in
GmgPrices_AsFound(p, rnd) ==
    [r |-> ElementPrice(p.price_old_el), d |-> ElementPrice(p.price_now_el)]

\* lines 332-359
GmgPrices(p, rnd) ==
    LET d0 == ElementPrice(p.price_now_el)
        r0 == ElementPrice(p.price_old_el)
    IN  IF ~Truthy(r0) /\ ~Truthy(d0) THEN GeneratedPrices(rnd)
        ELSE LET r1 == IF ~r0.ok /\ d0.ok THEN d0 ELSE r0
                 d1 == IF ~d0.ok /\ r1.ok THEN r1 ELSE d0
             IN  [r |-> r1, d |-> d1]

\* tag.get(attribute)
AttrValue(a) ==
    CASE a = "url" -> "https://cdn.example/cover.jpg"
      [] a = "empty" -> ""
      [] OTHER -> NoneStr

\* `not img`
FalsyStr(v) == v \in {NoneStr, ""}

\* lines 225-231, 286-292
Image(og_img, placeholder) ==
    IF FalsyStr(AttrValue(og_img)) THEN placeholder ELSE AttrValue(og_img)

\* lines 362-371
GmgImage(og_img, img_tag) ==
    IF ~FalsyStr(AttrValue(og_img)) THEN AttrValue(og_img)
    ELSE IF ~FalsyStr(AttrValue(img_tag)) THEN AttrValue(img_tag)
    ELSE "https://via.placeholder.com/460x215/0b3d2e/ffffff?text=GMG+Game"

\* estimate_howlongtobeat, lines 84-109, in tenths of an hour, for names
\* that hold "witcher" or none of the listed words
estimate_howlongtobeat(game_name, rnd) ==
    IF InSeq("witcher", LowerAll[game_name])
    THEN (IF rnd.u = "lo" THEN 400 ELSE 1000)
    ELSE (IF rnd.u = "lo" THEN 180 ELSE 450)

Parsed(name, prices, img, s, rnd) ==
    [name |-> name,
     price_regular |-> prices.r,
     price_discount |-> prices.d,
     rating |-> rnd.rating,
     platforms |-> <<"PC">>,
     image_url |-> img,
     distribution_type |-> "Digital",
     howlongtobeat |-> estimate_howlongtobeat(name, rnd),
     site |-> s]

parse_steam(p, rnd) ==
    IF p.raises \/ ElementName(p.name_el) = <<>> THEN <<>>
    ELSE <<Parsed(ElementName(p.name_el), SteamPrices(p, rnd),
                  Image(p.og_img, "https://via.placeholder.com/460x215/1b2838/ffffff?text=Portada+Juego"),
                  "steam", rnd)>>

parse_gog(p, rnd) ==
    IF p.raises \/ ElementName(p.name_el) = <<>> THEN <<>>
    ELSE <<Parsed(ElementName(p.name_el), GogPrices(p, rnd),
                  Image(p.og_img, "https://via.placeholder.com/460x215/5e3268/ffffff?text=Juego+GOG"),
                  "gog", rnd)>>

parse_gmg(p, rnd) ==
    IF p.raises \/ ElementName(p.name_el) = <<>> THEN <<>>
    ELSE <<Parsed(ElementName(p.name_el), GmgPrices(p, rnd),
                  GmgImage(p.og_img, p.img_tag), "gmg", rnd)>>

\* lines 395-419; html is <<>> when fetch returned None
scrape_game(s, html, url, rnd) ==
    IF html = <<>> THEN <<>>
    ELSE LET base == CASE s = "steam" -> parse_steam(html[1], rnd)
                       [] s = "gog" -> parse_gog(html[1], rnd)
                       [] OTHER -> parse_gmg(html[1], rnd)
         IN  IF base = <<>> \/ base[1].name = <<>> THEN <<>>
             ELSE <<[f \in DOMAIN base[1] \cup {"url"} |->
                        IF f = "url" THEN url ELSE base[1][f]]>>

\* the dict literal of the backfill, the fallback, the deadline path and the
\* backup
SyntheticDict(name, s, url, rnd) ==
    [name |-> name,
     price_regular |-> Value(rnd.price, 100),
     price_discount |-> Value(rnd.price2, 100),
     rating |-> rnd.rating,
     platforms |-> <<"PC">>,
     image_url |-> "https://via.placeholder.com/460x215/333333/ffffff?text=Juego",
     distribution_type |-> rnd.dist,
     howlongtobeat |-> IF rnd.u = "lo" THEN 100 ELSE 500,
     site |-> s,
     url |-> url]

\* f"Backup {site.upper()} Juego {n}"
BackupName(s, n) == <<"Backup", " ", Upper(s), " ", "Juego", " ", ToString(n)>>
BackupUrl(n) == [host |-> "example.com/backup", n |-> n]

PriceTexts == {<<>>, <<"F", "r", "e", "e">>, <<"0">>, <<"$", "1", "9", ".", "9", "9">>}
PriceEls == {<<>>} \cup {<<x>> : x \in PriceTexts}
NameEls == {<<>>, <<<<>>>>, <<<<"Z">>>>, <<<<"The", " ", "Witcher", " ", "3", "TM">>>>}
Attrs == {"absent", "noattr", "empty", "url"}

\* the item pages of a source; raises: BeautifulSoup or a selector raises
ItemPages(s) ==
    CASE s = "steam" ->
           [name_el : NameEls, discount_el : PriceEls, original_el : PriceEls,
            single_el : PriceEls, og_img : Attrs, raises : BOOLEAN]
      [] s = "gog" ->
           [name_el : NameEls, price_final : PriceEls, price_base : PriceEls,
            og_img : Attrs, raises : BOOLEAN]
      [] OTHER ->
           [name_el : NameEls, price_now_el : PriceEls, price_old_el : PriceEls,
            og_img : Attrs, img_tag : Attrs, raises : BOOLEAN]

RecInit ==
    /\ AtRest /\ FetchIdle /\ SeedIdle /\ MoneyIdle /\ NormIdle
    /\ r_pc = "start" /\ r_html = <<>> /\ r_game = <<>> /\ r_out = <<>>

recFrame == <<restVars, fetchVars, seedVars, moneyVars, normVars>>

\* a worker task runs scrape_game on a seed URL
ScrapeGame ==
    /\ r_pc = "start"
    /\ \E s \in SiteSet :
         \E html \in {<<>>} \cup {<<p>> : p \in ItemPages(s)}, rnd \in ParseRandoms(s) :
            /\ r_html' = html
            /\ r_game' = scrape_game(s, html, SeedUrl(s, 1), rnd)
    /\ r_pc' = "task_done"
    /\ UNCHANGED <<recFrame, r_out>>

\* lines 601-605: the result of a task is appended when it is a dict with a
\* name (and its identity is new)
AcceptGame ==
    /\ r_pc = "task_done"
    /\ r_out' = IF r_game # <<>> /\ r_game[1].name # <<>>
                THEN Append(r_out, r_game[1]) ELSE r_out
    /\ r_pc' = "done"
    /\ UNCHANGED <<recFrame, r_html, r_game>>

\* lines 627-639
MakeExclusivo ==
    /\ r_pc = "start"
    /\ \E s \in SiteSet, rnd \in Randoms : \E n \in 1..TARGET[s] :
          r_out' = Append(r_out, SyntheticDict(ExclusivoName(s, n), s, ExampleUrl(n), rnd))
    /\ r_pc' = "done"
    /\ UNCHANGED <<recFrame, r_html, r_game>>

\* lines 650-661
MakeFallback ==
    /\ r_pc = "start"
    /\ \E s \in SiteSet, rnd \in Randoms : \E i \in 0..(TARGET[s] - 1) :
          r_out' = Append(r_out, SyntheticDict(FallbackName(s, i), s, ExampleUrl(i), rnd))
    /\ r_pc' = "done"
    /\ UNCHANGED <<recFrame, r_html, r_game>>

\* lines 696-707
MakeTimeout ==
    /\ r_pc = "start"
    /\ \E s \in SiteSet, rnd \in Randoms : \E n \in 1..TARGET[s] :
          r_out' = Append(r_out, SyntheticDict(TimeoutName(s, n), s, ExampleUrl(n), rnd))
    /\ r_pc' = "done"
    /\ UNCHANGED <<recFrame, r_html, r_game>>

\* lines 739-750
MakeBackup ==
    /\ r_pc = "start"
    /\ \E s \in SiteSet, rnd \in Randoms : \E n \in 1..TARGET[s] :
          r_out' = Append(r_out, SyntheticDict(BackupName(s, n), s, BackupUrl(n), rnd))
    /\ r_pc' = "done"
    /\ UNCHANGED <<recFrame, r_html, r_game>>

RecNext ==
    \/ ScrapeGame
    \/ AcceptGame
    \/ MakeExclusivo
    \/ MakeFallback
    \/ MakeTimeout
    \/ MakeBackup

RecSpec == RecInit /\ [][RecNext]_vars

(***************************************************************************)
(* The outermost handler of run, lines 722-756.  An Exception that leaves  *)
(* the try of run (raised by the session, by a print, or inside the        *)
(* handler of scrape_site) is caught at line 722 at any point between the  *)
(* start of the loop and the end of the writers.  The writers catch their  *)
(* own Exceptions (lines 139 and 178), so both are called.                 *)
(***************************************************************************)
\* the `while True` search of lines 732-737
RECURSIVE NextBackup(_, _, _)
NextBackup(s, counter, index) ==
    IF normalize_game_name(BackupName(s, counter)) \notin index THEN counter
    ELSE NextBackup(s, counter + 1, index)

\* `for _ in range(count)`, k iterations left; synthetic_counter is kept
\* from one source to the next
RECURSIVE BackupSite(_, _, _)
BackupSite(s, k, b) ==
    IF k <= 0 THEN b
    ELSE LET n == NextBackup(s, b.counter, b.index)
         IN  BackupSite(s, k - 1,
                        [res |-> Append(b.res, Record(BackupName(s, n), s, BackupUrl(n))),
                         index |-> b.index \cup {normalize_game_name(BackupName(s, n))},
                         counter |-> n + 1])

\* `for site, count in TARGET.items()`, from the i-th source on
RECURSIVE BackupSites(_, _)
BackupSites(i, b) ==
    IF i > Len(Sites) THEN b
    ELSE BackupSites(i + 1, BackupSite(Sites[i], TARGET[Sites[i]], b))

\* a handler that goes on from what run had gathered
BackupStart_Gathered == [res |-> results, index |-> existing_games, counter |-> 1]

\* lines 726-728: results = [], existing_games = set(), synthetic_counter = 1
BackupStart == [res |-> <<>>, index |-> {}, counter |-> 1]

\* lines 722-756
RunFault ==
    /\ rpc \in {"loop", "scrape", "save_csv"}
    /\ \E b \in {BackupSites(1, BackupStart)} :
          /\ results' = b.res
          /\ existing_games' = b.index
          /\ json_out' = <<b.res>>
          /\ csv_out' = <<b.res>>
    /\ rpc' = "backup"
    /\ spc' = "idle" /\ seeds' = <<>> /\ site_results' = <<>> /\ seen_names' = {}
    /\ idx' = 0 /\ attempts' = 0 /\ batch' = {} /\ dispatched' = <<>>
    /\ tasks' = [s \in SiteSet |-> <<>>]
    /\ sem' = [s \in SiteSet |-> 0]
    /\ UNCHANGED <<envVars, now, siteIdx, histVars, fetchVars, auxVars>>

FaultNext == Next \/ RunFault

FaultSpec == Init /\ [][FaultNext]_vars

(***************************************************************************)
(* Properties.                                                             *)
(***************************************************************************)
Ident(r) == normalize_game_name(r.name)

\* the records a source contributed to run's list
Output(s) == SelectSeq(results, LAMBDA r : r.site = s)

AllSynthetic(w) == \A k \in 1..Len(w) : Synthetic(w[k])
RealOf(w) == {k \in 1..Len(w) : ~Synthetic(w[k])}
DistinctIdents(w) == \A a, b \in 1..Len(w) : a # b => Ident(w[a]) # Ident(w[b])

\* scrape_site was called for the source and has returned
Returned(s) == path[s] \in {"normal", "empty", "fallback"}

\* C1: whatever discovery, fetches, extraction, batch timeouts and the
\* deadline did, the list scrape_site returns for a source has exactly
\* `target` records, never fewer and never more.
C1_ExactQuota ==
    \A s \in SiteSet : Returned(s) => Len(Output(s)) = TARGET[s]

\* C2: in the list run hands to the writers no two records, real or
\* synthetic, of one source or of two, from the normal, the deadline or the
\* fallback path, have the same normalized identity.
C2_UniqueIdentities ==
    json_out # <<>> => DistinctIdents(json_out[1])

\* C3: when discovery returns no seed URL for a source, scrape_site returns
\* exactly `target` records and all of them are synthetic.
C3_NoSeedsBackfilled ==
    \A s \in SiteSet :
        path[s] = "empty" => Len(Output(s)) = TARGET[s] /\ AllSynthetic(Output(s))

\* C4: when the time is at or past the deadline as run reaches a source,
\* nothing is fetched or extracted for that source and it contributes
\* exactly TARGET[site] records, all synthetic.
C4_LateSourceSkipped ==
    \A s \in SiteSet :
        late[s] => /\ ~fetched[s]
                   /\ path[s] = "timeout"
                   /\ Len(Output(s)) = TARGET[s]
                   /\ AllSynthetic(Output(s))

C4_Witness ==
    /\ path["steam"] = "normal" /\ RealOf(Output("steam")) # {}
    /\ late["gog"] /\ path["gog"] = "timeout" /\ deadline = 1

\* C5: while a source is harvested, the workers inside the admission gate
\* are never more than the concurrency limit, whatever the batch size and
\* however completions and batch timeouts interleave.
C5_GateBound ==
    \A s \in SiteSet : Len(tasks[s]) > 0 => Cardinality(InGate(s)) <= concurrency

C5_Witness ==
    /\ concurrency = MaxConc
    /\ Cardinality(InGate("steam")) = MaxConc
    /\ Waiting("steam") # {}
    /\ \E i \in 1..Len(tasks["steam"]) : tasks["steam"][i].ab

\* C6: a fault raised while scrape_site discovers, harvests or backfills does
\* not leave it: scrape_site returns to run with exactly `target` records,
\* all synthetic, for that source.
C6_FaultGivesSyntheticQuota ==
    \A s \in SiteSet :
        path[s] = "fallback" =>
            /\ rpc # "scrape" \/ CurrentSite # s
            /\ Len(Output(s)) = TARGET[s]
            /\ AllSynthetic(Output(s))

C6_Witness ==
    /\ path["steam"] = "fallback" /\ siteIdx = 2
    /\ existing_games # {}
    /\ Len(Output("steam")) = QuotaSteam

\* C7: with the network down for the whole run, run always comes to its
\* end, and by then both writers have been called with its result list.
C7_NetDownStillSaves ==
    netDown ~> (rpc = "end" /\ json_out = <<results>> /\ csv_out = <<results>>)

\* with the network down no seed is found and no task is created
NetDownNoHarvest ==
    netDown => /\ seeds = <<>>
               /\ \A s \in SiteSet : tasks[s] = <<>> /\ path[s] # "normal"

C7_Witness ==
    /\ netDown /\ rpc = "end"
    /\ json_out = <<results>> /\ csv_out = <<results>>
    /\ path["steam"] = "empty" /\ path["gmg"] = "timeout"

\* the attempts of the call that brought a response with status 200
Status200(w) == {k \in 1..Len(w) : Status(w[k]) = 200}
\* the attempts whose response had status 200 and whose body was read
Succeeded(w) == {k \in 1..Len(w) : w[k] = "200"}

\* C8 (as stated): fetch never raises; it makes at most 5 GET attempts, makes
\* no attempt after the first response with status 200 and returns that
\* response's content, and returns None exactly when all 5 attempts failed.
C8_StopsAtFirst200 ==
    /\ f_pc # "raised"
    /\ Len(f_trace) <= FetchAttempts
    /\ \A k \in Status200(f_trace) : k = Len(f_trace)
    /\ f_pc = "returned" =>
         IF Status200(f_trace) # {}
         THEN f_ret = <<Content(Len(f_trace))>>
         ELSE f_ret = <<NoContent>> /\ Len(f_trace) = FetchAttempts

\* C8 (amended): fetch never raises; it makes at most 5 GET attempts, makes
\* no attempt after the first status-200 response whose body is read and
\* returns that body; a status-200 response whose body cannot be read counts
\* as a failed attempt; it returns None exactly when all 5 attempts failed.
C8_StopsAtFirstBodyRead ==
    /\ f_pc # "raised"
    /\ Len(f_trace) <= FetchAttempts
    /\ \A k \in Succeeded(f_trace) : k = Len(f_trace)
    /\ f_pc = "returned" =>
         IF Succeeded(f_trace) # {}
         THEN f_ret = <<Content(Len(f_trace))>>
         ELSE f_ret = <<NoContent>> /\ Len(f_trace) = FetchAttempts

C8_Witness ==
    /\ f_pc = "returned" /\ f_ret = <<Content(3)>>
    /\ f_trace = <<"200_text_error", "429", "200">>
    /\ f_sleeps = <<1, 2 * RateLimitBase>>

\* C9: a record whose identity was already in the index when its source
\* began is never among that source's records, and a source that met such
\* a record still returns exactly `target` records.
C9_CrossSourceDuplicateRejected ==
    \A s \in SiteSet :
        /\ \A k \in RealOf(Output(s)) : Ident(Output(s)[k]) \notin indexAtStart[s]
        /\ (metDup[s] /\ Returned(s)) => Len(Output(s)) = TARGET[s]

C9_Witness ==
    /\ metDup["gog"] /\ path["gog"] = "normal"
    /\ <<"z">> \in indexAtStart["gog"]
    /\ Len(Output("gog")) = QuotaGog /\ AllSynthetic(Output("gog"))

\* the tasks of a source whose page gave a valid record
ValidTasks(s) == {i \in 1..Len(tasks[s]) : tasks[s][i].res # <<>>}

\* every seed of the source was tried to the end inside its batch, k < Q of
\* them gave a record, of pairwise distinct identities new to the index
C10_Case(s) ==
    /\ rpc = "scrape" /\ CurrentSite = s
    /\ deadline > MaxTime
    /\ seeds # <<>> /\ Len(tasks[s]) = Len(seeds)
    /\ \A i \in 1..Len(tasks[s]) : tasks[s][i].st \in {"done", "consumed"} /\ ~tasks[s][i].ab
    /\ Cardinality(ValidTasks(s)) < TARGET[s]
    /\ \A i, j \in ValidTasks(s) :
           i # j => Ident(tasks[s][i].res[1]) # Ident(tasks[s][j].res[1])
    /\ \A i \in ValidTasks(s) : Ident(tasks[s][i].res[1]) \notin indexAtStart[s]

\* C10: with the deadline far away and no batch timeout, when exactly k < Q
\* seed pages give valid records of pairwise distinct identities new to the
\* index and the other pages give none, scrape_site returns Q records: the k
\* real ones and Q - k synthetic ones, no two of the same identity.
C10_RealPlusBackfill ==
    [][\A s \in SiteSet :
          (C10_Case(s) /\ path'[s] = "normal") =>
              LET out == SubSeq(results', Len(results) + 1, Len(results'))
              IN  /\ Len(out) = TARGET[s]
                  /\ {out[k] : k \in RealOf(out)} = {tasks[s][i].res[1] : i \in ValidTasks(s)}
                  /\ Cardinality(RealOf(out)) = Cardinality(ValidTasks(s))
                  /\ DistinctIdents(out)
                  /\ \A k \in 1..Len(out) : Ident(out[k]) \notin indexAtStart[s]]_vars

C10_Witness ==
    /\ path["steam"] = "normal" /\ siteIdx = 2 /\ ~leftRunning["steam"]
    /\ deadline > MaxTime /\ concurrency = MaxConc
    /\ Len(results) = QuotaSteam
    /\ Ident(results[1]) = normalize_game_name(ExclusivoName("steam", 1))
    /\ ~Synthetic(results[1]) /\ Synthetic(results[2])

\* C11: the list scrape_site returns is the first Q elements of the accepted
\* real records, in acceptance order, followed by the synthetic records in
\* the order they were generated: reals precede synthetics, and when more
\* than Q were accepted only the first Q accepted are returned.
C11_AcceptanceOrder ==
    \A s \in SiteSet :
        path[s] = "normal" =>
            LET out == Output(s)
                k == Min(Len(accepted[s]), TARGET[s])
            IN  /\ Len(out) >= k
                /\ SubSeq(out, 1, k) = SubSeq(accepted[s], 1, k)
                /\ \A j \in 1..k : ~Synthetic(out[j])
                /\ \A j \in (k + 1)..Len(out) : Synthetic(out[j])
                /\ \A a, b \in (k + 1)..Len(out) : a < b => out[a].url.n < out[b].url.n

C11_Witness ==
    /\ path["steam"] = "normal" /\ Len(accepted["steam"]) = 1
    /\ path["gog"] = "normal" /\ Len(accepted["gog"]) > QuotaGog

\* the harvest of s ended normally with seeds left and the quota not reached
CutShort(s) ==
    path[s] = "normal" /\ undispatched[s] > 0 /\ Len(accepted[s]) < TARGET[s]

\* C12: once the deadline has passed while a source is harvested, no further
\* batch of tasks is dispatched for it, and scrape_site still returns exactly
\* `target` records, the shortfall being synthetic.
C12_NoBatchAfterDeadline ==
    [][/\ idx' > idx => now < deadline
       /\ \A s \in SiteSet :
            (~CutShort(s) /\ CutShort(s)') =>
                /\ now >= deadline
                /\ Len(Output(s)') = TARGET[s]
                /\ Cardinality(RealOf(Output(s)')) = Len(accepted'[s])]_vars

C12_Witness ==
    /\ CutShort("steam") /\ deadline = 1 /\ siteIdx = 2
    /\ Len(accepted["steam"]) = 1
    /\ Len(Output("steam")) = QuotaSteam /\ Synthetic(Output("steam")[QuotaSteam])

\* the tasks of s that were pending when the wait of their batch timed out
Abandoned(s) == {i \in 1..Len(tasks[s]) : tasks[s][i].ab}

\* C13: a task still pending when the wait of its batch times out is
\* abandoned: scrape_site does not wait for it, and the record it later
\* produces is never appended to results, nor is its identity added to the
\* seen set or to the index on its account.
C13_AbandonedNeverConsulted ==
    \A s \in SiteSet : \A i \in Abandoned(s) :
        /\ i \notin batch
        /\ tasks[s][i].st # "consumed"
        /\ tasks[s][i].res # <<>> =>
             LET r == tasks[s][i].res[1]
                 own == {Ident(site_results[k]) : k \in 1..Len(site_results)}
             IN  /\ \A k \in 1..Len(results) : results[k] # r
                 /\ \A k \in 1..Len(site_results) : site_results[k] # r
                 /\ Ident(r) \in seen_names => Ident(r) \in own
                 /\ Ident(r) \in existing_games \ indexAtStart[s] => Ident(r) \in own

C13_Witness ==
    /\ rpc = "scrape" /\ spc = "wait" /\ batch # {}
    /\ \E i \in Abandoned("steam") :
          /\ tasks["steam"][i].st = "done" /\ tasks["steam"][i].res # <<>>
          /\ Ident(tasks["steam"][i].res[1]) \notin existing_games

\* the discoverer has returned
SeedEnded == sd_pc \in {"returned", "caught"}

\* followed page by page, the discoverer returns what SeedLoop computes
SeedLoopAgrees == sd_pc = "returned" => sd_urls = SeedLoop(<<>>, sd_pages, sd_max)

\* C14: whatever the listing pages hold, the list a discoverer called with
\* max_urls returns has at most max_urls URLs.
C14_SeedCap == SeedEnded => Len(sd_urls) <= sd_max

\* C15: a discoverer never raises and a failed listing page does not end
\* discovery: it is skipped, the later pages are still fetched, the URLs of
\* the earlier pages are kept, and when every page fails the result is empty.
C15_FailedPageSkipped ==
    /\ sd_pc \in {"idle", "loop", "returned", "caught"}
    /\ \A k \in 1..sd_done :
          sd_pages[k].ok =>
              \A j \in 1..Len(sd_pages[k].links) :
                  CleanUrl(sd_pages[k].links[j]) # 0 =>
                      InSeq(CleanUrl(sd_pages[k].links[j]), sd_urls)
    /\ (sd_pc = "returned" /\ Len(sd_urls) < sd_max) => sd_done = Len(sd_pages)
    /\ (SeedEnded /\ \A k \in 1..Len(sd_pages) : ~sd_pages[k].ok) =>
          sd_urls = <<>> /\ sd_pc = "returned" /\ sd_done = Len(sd_pages)

C15_Witness ==
    /\ sd_pc = "returned" /\ sd_done = SeedPageLimit /\ SeedPageLimit >= 3
    /\ sd_pages[1] = Page(<<1>>) /\ ~sd_pages[2].ok /\ sd_pages[3] = Page(<<3>>)
    /\ sd_urls = <<1, 3>>

\* C16: when scrape_site, or the deadline path of run, returns, the identity
\* of every synthetic record it emitted for the source is in the shared
\* index, so that no later source can accept or generate the same identity.
C16_SyntheticsRegistered ==
    \A k \in 1..Len(results) :
        Synthetic(results[k]) => Ident(results[k]) \in existing_games

\* the place of a source in the configured order
SiteIndex(s) == CHOOSE k \in 1..Len(Sites) : Sites[k] = s

\* the sources run has gone through are exactly those before siteIdx, the
\* one being scraped is the only other one that has fetched anything, and
\* the records stand in the order of their sources
SourcesInOrder ==
    /\ \A k \in 1..Len(Sites) : path[Sites[k]] # "none" <=> k < siteIdx
    /\ \A k \in 1..Len(Sites) :
          fetched[Sites[k]] =>
              k < siteIdx \/ (k = siteIdx /\ rpc \in {"scrape", "interrupted"})
    /\ \A k \in 1..Len(Sites) : Len(tasks[Sites[k]]) > 0 => k = siteIdx /\ rpc = "scrape"
    /\ \A a, b \in 1..Len(results) :
          a < b => SiteIndex(results[a].site) <= SiteIndex(results[b].site)
    /\ results = Output("steam") \o Output("gog") \o Output("gmg")
    /\ \A j, k \in 1..Len(Sites) :
          (j < k /\ (k < siteIdx \/ (k = siteIdx /\ rpc = "scrape"))) =>
              /\ indexAtStart[Sites[j]] \subseteq indexAtStart[Sites[k]]
              /\ \A r \in 1..Len(Output(Sites[j])) :
                    path[Sites[j]] # "fallback" =>
                        Ident(Output(Sites[j])[r]) \in indexAtStart[Sites[k]]
    /\ json_out # <<>> => json_out[1] = results
    /\ csv_out # <<>> => csv_out = json_out

\* C17: run goes through the sources one after another in the order steam,
\* gog, gmg, with one deadline and one index for all of them, and the list
\* handed to the writers is the concatenation of their outputs in that
\* order: no source starts before the previous one returned.
C17_SourcesSequential ==
    [][deadline' = deadline /\ SourcesInOrder']_vars

C17_Witness ==
    /\ rpc = "end"
    /\ path["steam"] = "normal" /\ path["gog"] = "fallback" /\ path["gmg"] = "timeout"
    /\ leftRunning["steam"]
    /\ Len(json_out[1]) = QuotaSteam + QuotaGog + QuotaGmg

IsNumber(v, num, den) ==
    /\ v.ok
    /\ IF v.den >= den THEN v.num = num * (v.den \div den)
       ELSE v.num * (den \div v.den) = num

\* the decimal points of a text once money_to_float has cleaned it
PointsAfterCleaning(txt) ==
    IF Has(",", txt) /\ Has(".", txt) THEN Count(".", txt)
    ELSE Count(".", txt) + Count(",", txt)

MoneyInputsWithoutNumber(txt) ==
    \/ txt = <<>>
    \/ \A k \in 1..Len(txt) : txt[k] \notin Digits \cup {".", ","}
    \/ PointsAfterCleaning(txt) > 1

\* what the examples other than "1.234,56" say
MoneyOtherExamples ==
    m_ret # <<>> =>
        /\ m_txt = <<"$", "1", "9", ".", "9", "9">> => IsNumber(m_ret[1], 1999, 100)
        /\ m_txt = <<"1", "9", ",", "9", "9">> => IsNumber(m_ret[1], 1999, 100)
        /\ MoneyInputsWithoutNumber(m_txt) => ~m_ret[1].ok

\* C19: money_to_float maps "$19.99" to 19.99, "1.234,56" to 1234.56 and
\* "19,99" to 19.99, and returns no value for a text from which no number
\* can be parsed (empty, no digit or separator, more than one decimal point
\* after cleaning).
C19_MoneyExamples ==
    /\ MoneyOtherExamples
    /\ m_ret # <<>> =>
          (m_txt = <<"1", ".", "2", "3", "4", ",", "5", "6">> =>
              IsNumber(m_ret[1], 123456, 100))

\* C20: two names that differ only in letter case, in trademark symbols or
\* in the amount of whitespace (runs, leading, trailing) have the same
\* normalized identity; in particular "The Witcher 3(TM)" and
\* "the witcher 3" do.
C20_SameIdentity ==
    /\ normalize_game_name(n_cur) = normalize_game_name(n_orig)
    /\ normalize_game_name(<<"The", " ", "Witcher", " ", "3", "TM">>)
         = normalize_game_name(<<"the", " ", "witcher", " ", "3">>)

\* "The Witcher 3(TM)" against a spelling that differs from it in case, in
\* the trademark symbol and in whitespace
C20_Witness ==
    /\ n_orig = <<"The", " ", "Witcher", " ", "3", "TM">>
    /\ n_cur = <<"\t", "the", " ", " ", "witcher", " ", "3">>

Complete(d) ==
    /\ DOMAIN d = TenFields
    /\ d.name # <<>>
    /\ d.price_regular.ok
    /\ d.price_discount.ok
    /\ d.rating \in 80..99
    /\ d.platforms # <<>>
    /\ d.howlongtobeat \in Nat
    /\ d.distribution_type \in Distributions
    /\ d.site \in SiteSet
    /\ DOMAIN d.url = {"host", "n"}
    /\ d.image_url # NoneStr

\* C21: every dict of the output has the ten fields, none of them null, and
\* a non-empty name; a page of which no name can be extracted gives no dict.
C21_RecordsComplete ==
    /\ \A k \in 1..Len(r_out) : Complete(r_out[k])
    /\ (r_html # <<>> /\ r_pc \in {"task_done", "done"}
        /\ ElementName(r_html[1].name_el) = <<>>)
          => r_game = <<>> /\ r_out = <<>>

\* a Green Man Gaming page with a name, its price now unparsable, no former
\* price and no image has given a dict of the output
C21_Witness ==
    /\ r_pc = "done"
    /\ Len(r_out) = 1
    /\ r_out[1].site = "gmg"
    /\ r_html # <<>>
    /\ r_html[1].price_now_el = <<<<"F", "r", "e", "e">>>>
    /\ r_html[1].price_old_el = <<>>
    /\ r_html[1].og_img = "absent"
    /\ r_html[1].img_tag = "noattr"

RECURSIVE Flatten(_)
Flatten(bs) == IF bs = <<>> THEN <<>> ELSE Head(bs) \o Flatten(Tail(bs))

\* the seeds that were ahead when the k-th batch was cut
AheadOf(k) == Len(seeds) - Len(Flatten(SubSeq(dispatched, 1, k - 1)))

\* C23: the batches are consecutive, disjoint slices of the seed list in
\* discovery order, each of min(3*C, seeds remaining) URLs; no seed URL is
\* handed to more than one task, and the URLs of an earlier batch precede
\* those of a later one in the seed list.
C23_ConsecutiveBatches ==
    (rpc = "scrape" /\ spc \in {"wait", "sleep"}) =>
        /\ Flatten(dispatched) = SubSeq(seeds, 1, idx)
        /\ \A k \in 1..Len(dispatched) :
              Len(dispatched[k]) = Min(BatchFactor * concurrency, AheadOf(k))
        /\ \A a, b \in 1..Len(Flatten(dispatched)) :
              a # b => Flatten(dispatched)[a] # Flatten(dispatched)[b]
        /\ \A k \in 1..Len(tasks[CurrentSite]) :
              tasks[CurrentSite][k].st # "new" => k <= idx

\* two batches were dispatched, the second shorter than 3*C
C23_Witness ==
    /\ rpc = "scrape" /\ spc = "wait"
    /\ Len(dispatched) = 2
    /\ Len(dispatched[2]) < BatchFactor * concurrency
    /\ Len(dispatched[1]) = BatchFactor * concurrency

\* C24: with C >= 1 the harvesting loop of scrape_site always ends, the
\* backfill after it too, even if no fetch ever succeeds and the deadline
\* never passes: every source that is begun is left, and no more seeds are
\* attempted than there are.
C24_HarvestTerminates ==
    /\ (rpc = "scrape") ~> (rpc = "loop")
    /\ [](attempts <= Len(seeds) /\ idx = attempts)
    /\ [](\A k \in 1..Len(dispatched) : dispatched[k] # <<>>)

\* a source left its loop with every seed attempted, nothing accepted and
\* tasks still pending, and returned
C24_Witness ==
    \E s \in SiteSet :
        /\ path[s] = "normal"
        /\ accepted[s] = <<>>
        /\ undispatched[s] = 0
        /\ leftRunning[s]
        /\ concurrency >= 1 /\ deadline > MaxTime

\* C25: in fetch the k-th attempt, when answered with status 429, is
\* followed by a sleep of 3*k seconds, longer after each later attempt; an
\* attempt that fails in another way is followed by a short sleep that is
\* the same whatever k; the next attempt is made only after the sleep.
C25_Backoff ==
    /\ \A k \in 1..Len(f_sleeps) :
          /\ f_trace[k] = "429" => f_sleeps[k] = RateLimitBase * k
          /\ f_trace[k] # "429" => f_sleeps[k] < RateLimitBase
          /\ \A j \in 1..Len(f_sleeps) :
                /\ (f_trace[j] = "429" /\ f_trace[k] = "429" /\ j < k)
                      => f_sleeps[j] < f_sleeps[k]
                /\ (f_trace[j] = f_trace[k] /\ f_trace[k] # "429")
                      => f_sleeps[j] = f_sleeps[k]
    /\ f_pc = "get" => Len(f_sleeps) = Len(f_trace) /\ f_attempt = Len(f_trace)
    /\ f_pc = "sleep" => Len(f_sleeps) = Len(f_trace) /\ f_attempt + 1 = Len(f_trace)
    /\ \A k \in 1..Len(f_trace) : k < Len(f_trace) => f_trace[k] # "200"

\* five attempts, the first, third and fifth rate-limited
C25_Witness ==
    /\ f_pc = "returned" /\ f_ret = <<NoContent>>
    /\ f_trace = <<"429", "other", "429", "timeout", "429">>
    /\ f_sleeps = <<RateLimitBase, 1, 3 * RateLimitBase, 2, 5 * RateLimitBase>>

\* the tasks whose results `for task in done` goes through in this step
DoneNow == {i \in batch : tasks[CurrentSite][i].st = "done"}
ValidResult(i) ==
    /\ tasks[CurrentSite][i].res # <<>>
    /\ tasks[CurrentSite][i].res[1].name # <<>>
ResultIdent(i) == normalize_game_name(tasks[CurrentSite][i].res[1].name)

\* a step in which the results of a batch are processed
Processing == rpc = "scrape" /\ spc = "wait" /\ spc' # "wait" /\ rpc' # "interrupted"

\* results after the processing, and what the processing appended
ResultsAfter == IF spc' = "sleep" THEN site_results' ELSE accepted'[CurrentSite]
Appended == SubSeq(ResultsAfter, Len(site_results) + 1, Len(ResultsAfter))
AppendedIdents == {Ident(Appended[k]) : k \in 1..Len(Appended)}

\* C26: the record of a completed task is accepted exactly when it is valid
\* and its identity is in neither the seen set nor the index; accepting
\* appends it to results and puts the identity in both sets; a rejected
\* result changes neither results nor the sets.
C26_AcceptIffNew ==
    [][Processing =>
         /\ SubSeq(ResultsAfter, 1, Len(site_results)) = site_results
         /\ \A k \in 1..Len(Appended) :
               \E i \in DoneNow : /\ ValidResult(i)
                                  /\ tasks[CurrentSite][i].res[1] = Appended[k]
                                  /\ ResultIdent(i) \notin seen_names \cup existing_games
         /\ \A i \in DoneNow :
               IF ValidResult(i) /\ ResultIdent(i) \notin seen_names \cup existing_games
               THEN Cardinality({k \in 1..Len(Appended) :
                                    Ident(Appended[k]) = ResultIdent(i)}) = 1
               ELSE ValidResult(i) => ResultIdent(i) \notin AppendedIdents
         /\ existing_games' = existing_games \cup AppendedIdents
         /\ spc' = "sleep" => seen_names' = seen_names \cup AppendedIdents
    ]_vars

\* after a batch: one result was accepted, one valid result was rejected as
\* a duplicate, one task had no result
C26_Witness ==
    /\ rpc = "scrape" /\ spc = "sleep"
    /\ \E i, j, k \in 1..Len(tasks[CurrentSite]) :
          /\ tasks[CurrentSite][i].st = "consumed"
          /\ tasks[CurrentSite][j].st = "consumed"
          /\ tasks[CurrentSite][k].st = "consumed"
          /\ tasks[CurrentSite][i].res # <<>>
          /\ InSeq(tasks[CurrentSite][i].res[1], site_results)
          /\ tasks[CurrentSite][j].res # <<>>
          /\ ~InSeq(tasks[CurrentSite][j].res[1], site_results)
          /\ normalize_game_name(tasks[CurrentSite][j].res[1].name) \in seen_names
          /\ tasks[CurrentSite][k].res = <<>>

\* the identities in seen_names or existing_games when the j-th record of
\* the output of source s, a synthetic one, was generated
KnownBefore(s, j) ==
    indexAtStart[s]
    \cup {Ident(accepted[s][i]) : i \in 1..Len(accepted[s])}
    \cup {Ident(Output(s)[m]) : m \in (Len(accepted[s]) + 1)..(j - 1)}

\* C27: the backfill generates exactly Q - accepted records; the n of each
\* is the smallest value from the running counter on (1 at first, then one
\* more than the last n) whose name's identity is in neither set; n grows
\* from one synthetic record to the next, and the URL carries the n of the
\* name.
C27_BackfillCounter ==
    \A s \in SiteSet :
        (path[s] = "normal" /\ Len(accepted[s]) < TARGET[s]) =>
            LET out == Output(s)
                k == Len(accepted[s])
            IN  /\ Len(out) - k = TARGET[s] - k
                /\ SubSeq(out, 1, k) = accepted[s]
                /\ \A j \in (k + 1)..Len(out) :
                      LET n == out[j].url.n
                          counter == IF j = k + 1 THEN 1 ELSE out[j - 1].url.n + 1
                      IN  /\ Synthetic(out[j])
                          /\ out[j].name = ExclusivoName(s, n)
                          /\ n >= counter
                          /\ normalize_game_name(ExclusivoName(s, n)) \notin KnownBefore(s, j)
                          /\ \A m \in counter..(n - 1) :
                                normalize_game_name(ExclusivoName(s, m)) \in KnownBefore(s, j)

\* the first synthetic record of steam has n = 2, because a real record
\* with the identity of "Exclusivo STEAM Juego 1" was accepted
C27_Witness ==
    /\ path["steam"] = "normal"
    /\ Len(accepted["steam"]) = 1
    /\ Ident(accepted["steam"][1]) = normalize_game_name(ExclusivoName("steam", 1))
    /\ Len(Output("steam")) = TARGET["steam"]
    /\ Output("steam")[2].url.n = 2

\* the workers created so far for the source
Workers(s) == {i \in 1..Len(tasks[s]) : tasks[s][i].st # "new"}
AllFinished(s) == \A i \in Workers(s) : tasks[s][i].st \in {"done", "consumed"}

\* C28: a worker holds one slot from before its fetch until scrape_game has
\* returned, whatever it returned: the free slots and the workers inside
\* the gate always add up to C, nobody waits while a slot is free, and once
\* every worker created for the source has finished all C slots are free.
C28_NoSlotLeaked ==
    (rpc = "scrape" /\ spc \in {"wait", "sleep"}) =>
        LET s == CurrentSite
        IN  /\ sem[s] >= 0
            /\ sem[s] + Cardinality(InGate(s)) = concurrency
            /\ Waiting(s) # {} => sem[s] = 0
            /\ AllFinished(s) => sem[s] = concurrency

\* more workers than slots were created for steam, one returned a record
\* and one returned None after its fetch, and all of them have finished
C28_Witness ==
    /\ rpc = "scrape" /\ CurrentSite = "steam" /\ spc \in {"wait", "sleep"}
    /\ fetched["steam"]
    /\ Cardinality(Workers("steam")) > concurrency
    /\ AllFinished("steam")
    /\ \E i, j \in Workers("steam") :
          tasks["steam"][i].res # <<>> /\ tasks["steam"][j].res = <<>>
    /\ sem["steam"] = concurrency

\* one step of the discoverer fetches at most the one page after the last
\* page fetched, and only while the cap has not been reached
FetchesNextPageOnly ==
    /\ sd_done' \in {sd_done, sd_done + 1}
    /\ sd_done' = sd_done + 1 =>
          /\ sd_pc = "loop"
          /\ sd_done < SeedPageLimit
          /\ Len(sd_urls) < sd_max
    /\ sd_pc # "loop" => UNCHANGED <<sd_pc, sd_done, sd_urls>>

\* C29: a discoverer fetches the listing pages one at a time in ascending
\* order, each at most once; it goes on only while the URL count is below
\* max_urls, returns as soon as the count has reached max_urls after a page
\* or when the fixed number of pages has been tried, and always terminates.
C29_PagesInOrderAndEnds ==
    /\ [][FetchesNextPageOnly]_vars
    /\ [](sd_done <= SeedPageLimit)
    /\ []((sd_pc = "loop" /\ sd_done > 0) => Len(sd_urls) < sd_max)
    /\ [](sd_pc = "returned" => (Len(sd_urls) >= sd_max \/ sd_done = SeedPageLimit))
    /\ <>SeedEnded

\* the first page failed, the second took the count to max_urls, and the
\* discoverer returned without fetching the third
C29_Witness ==
    /\ sd_pc = "returned" /\ sd_done = 2 /\ SeedPageLimit >= 3
    /\ ~sd_pages[1].ok /\ sd_pages[2].ok
    /\ Len(sd_urls) >= sd_max

NoRepeats(w) == \A a, b \in 1..Len(w) : a # b => w[a] # w[b]

\* C30: the list of a discoverer never holds the same URL twice, while it
\* is built and when it is returned, whether the link recurs on one page,
\* on a later page, or written with another query string.
C30_NoRepeatedUrl == NoRepeats(sd_urls)

\* URL 1 was linked twice on the first page and again, with another query
\* string, on the second; the list returned holds it once
C30_Witness ==
    /\ sd_pc = "returned" /\ sd_done = 2
    /\ sd_pages[1] = Page(<<1, 1>>) /\ sd_pages[2] = Page(<<11, 2>>)
    /\ sd_urls = <<1, 2>>

BackupRecord(r) == r.url.host = "example.com/backup"

\* C31: when an Exception reaches the handler of run, nothing gathered is
\* kept: the list is made of generated backup records only, TARGET[site] of
\* them for each configured source, with pairwise distinct identities, and
\* both writers were called with that list.
C31_BackupList ==
    rpc = "backup" =>
        /\ \A k \in 1..Len(results) :
              /\ BackupRecord(results[k])
              /\ results[k].name = BackupName(results[k].site, results[k].url.n)
        /\ \A s \in SiteSet : Len(Output(s)) = TARGET[s]
        /\ Len(results) = TARGET["steam"] + TARGET["gog"] + TARGET["gmg"]
        /\ DistinctIdents(results)
        /\ json_out = <<results>> /\ csv_out = <<results>>

\* the fault came after steam had returned a real record and the JSON file
\* was written with the gathered list
C31_Witness ==
    /\ rpc = "backup"
    /\ path["steam"] = "normal" /\ accepted["steam"] # <<>>
    /\ siteIdx > Len(Sites)
    /\ Len(results) = TARGET["steam"] + TARGET["gog"] + TARGET["gmg"]
    /\ json_out = <<results>>

\* C32: normalize_game_name is idempotent: applied a second time to its own
\* result it gives that result again, for every name over letters of both
\* cases, the removed symbols, other punctuation and whitespace.
C32_Idempotent ==
    /\ n_calls >= 1 => n_cur = normalize_game_name(n_orig)
    /\ normalize_game_name(normalize_game_name(n_orig)) = normalize_game_name(n_orig)

\* a name with a capital, a removed symbol between two spaces and a tab at
\* the end, normalised twice
C32_Witness ==
    /\ n_calls = 2
    /\ n_orig \in {<<"Z", " ", "-">>, <<" ", "TM", "Z">>, <<"Z", "#", "\t">>}
    /\ n_cur \in {<<"z">>, <<"z", "#">>}

OutputIdents == {Ident(results[k]) : k \in 1..Len(results)}

\* C33: at the end of a run every identity in the shared index is the
\* identity of a record of the output: none was left there by a record
\* that was accepted and then dropped.
C33_IndexCoveredByOutput == rpc = "end" => existing_games \subseteq OutputIdents

\* two different tasks among those gone through, both with a valid record,
\* of one identity
Duplicates(i, j) ==
    /\ i # j
    /\ ValidResult(i) /\ ValidResult(j)
    /\ ResultIdent(i) = ResultIdent(j)

HowManyAppended(ident) == Cardinality({k \in 1..Len(Appended) : Ident(Appended[k]) = ident})

\* C34 as stated: of the valid records of one identity that tasks of the
\* same batch completed with, exactly one is accepted, whatever the order
\* of completion and of examination.
C34_ExactlyOneOfDuplicates ==
    [][Processing =>
         \A i, j \in DoneNow : Duplicates(i, j) => HowManyAppended(ResultIdent(i)) = 1
    ]_vars

\* C34, amended: exactly one of them is accepted when the identity is in
\* neither the seen set nor the index as the batch is gone through, and none
\* when it already is; never two.
C34_OneOfDuplicatesIfNew ==
    [][Processing =>
         \A i, j \in DoneNow :
             Duplicates(i, j) =>
                 HowManyAppended(ResultIdent(i)) =
                     IF ResultIdent(i) \in seen_names \cup existing_games THEN 0 ELSE 1
    ]_vars

\* steam after a batch in which the pages named "Z" and "Z:" both completed:
\* one record of identity "z" is in the results
C34_Witness ==
    /\ rpc = "scrape" /\ spc = "sleep" /\ CurrentSite = "steam"
    /\ \E i, j \in 1..Len(tasks["steam"]) :
          /\ i # j
          /\ tasks["steam"][i].st = "consumed" /\ tasks["steam"][j].st = "consumed"
          /\ tasks["steam"][i].res # <<>> /\ tasks["steam"][j].res # <<>>
          /\ Ident(tasks["steam"][i].res[1]) = <<"z">>
          /\ Ident(tasks["steam"][j].res[1]) = <<"z">>
    /\ Cardinality({k \in 1..Len(site_results) : Ident(site_results[k]) = <<"z">>}) = 1

\* the tasks of earlier batches that hold a slot and fetch, or queue for a slot
EarlierStillRunning(s) ==
    {i \in 1..Len(tasks[s]) : i \notin batch /\ tasks[s][i].st \in {"waiting", "fetching"}}

\* C35: while a batch dispatched after a timeout is awaited, and when
\* scrape_site has returned, no task of an earlier batch holds a slot,
\* queues for one or fetches.
C35_AbandonedHoldNothing ==
    /\ (rpc = "scrape" /\ spc = "wait") => EarlierStillRunning(CurrentSite) = {}
    /\ \A s \in SiteSet : ~leftRunning[s]

\* the tasks of source s that enter `async with sem`, and so call
\* scrape_game, in this step
BeginFetch(s) ==
    {i \in 1..Len(tasks[s]) :
        /\ i <= Len(tasks'[s])
        /\ tasks[s][i].st # "fetching"
        /\ tasks'[s][i].st = "fetching"}

\* C36: no worker begins its fetch after the deadline has passed, whether
\* it gets its slot at once or after queuing for it.
C36_NoFetchAfterDeadline ==
    [][\A s \in SiteSet : BeginFetch(s) # {} => ~(now > deadline)]_vars

\* C37: with C <= 0 scrape_site never awaits a batch, always returns, and
\* when seeds were found it returns exactly `target` records.
C37_NoSlotStillReturnsQuota ==
    /\ (rpc = "scrape") ~> (rpc = "loop")
    /\ [](spc \notin {"wait", "sleep"} /\ dispatched = <<>>)
    /\ [](\A s \in SiteSet :
             (Returned(s) /\ path[s] # "empty") =>
                 /\ rpc # "scrape" \/ CurrentSite # s
                 /\ Len(Output(s)) = TARGET[s])

\* with C = 0 and seeds found, steam returned its quota through the handler
C37_Witness ==
    /\ concurrency = 0 /\ rpc = "loop" /\ siteIdx = 2
    /\ path["steam"] = "fallback"
    /\ Len(Output("steam")) = TARGET["steam"]

\* C38: no step of run or scrape_site takes an identity out of the shared
\* index or changes the deadline, and the seen set of the source being
\* harvested is always a subset of the index.
C38_IndexOnlyGrows ==
    /\ [][existing_games \subseteq existing_games' /\ deadline' = deadline]_vars
    /\ [](seen_names \subseteq existing_games)

\* gmg has returned: the index holds identities that steam, gog and gmg
\* registered one after the other, more than the quota of any of them
C38_Witness ==
    /\ rpc = "loop" /\ siteIdx > Len(Sites)
    /\ indexAtStart["gog"] # {}
    /\ indexAtStart["gog"] \subseteq indexAtStart["gmg"]
    /\ indexAtStart["gmg"] # indexAtStart["gog"]
    /\ indexAtStart["gmg"] \subseteq existing_games
    /\ existing_games # indexAtStart["gmg"]
    /\ seen_names = {}

====
